---- MODULE Spec2Model ----
(***************************************************************************)
(* bog-engine: the falling-sand engine.                                    *)
(*                                                                         *)
(* The model follows Engine (src/src/core/engine.ts) driving a Grid.  The  *)
(* Grid's tryMoveParticle, createParticleAt and fillCircleAt are those of  *)
(* src/unnamed/part_002; markDirty and swapParticles are the index-based   *)
(* ones of src/unnamed/part_001, which is what Engine's game loop reads    *)
(* (it iterates the dirty set as flat indices, engine.ts:113-114, and      *)
(* calls swapParticles with two particles, engine.ts:255).                 *)
(*                                                                         *)
(* Particles are objects: `particle` is the heap (handle -> fields) and    *)
(* `data` the dense array (flat index -> handle).  Time is in whole        *)
(* milliseconds.                                                           *)
(***************************************************************************)
EXTENDS Integers, Sequences, FiniteSets, TLC

VARIABLES
    width, height,        \* Grid.width, Grid.height
    particle,             \* heap: handle -> [id, x, y, index]
    data,                 \* Grid.#data: flat index -> handle
    dirtyParticles,       \* Grid.#dirtyParticles (flat indices)
    particlesProcessed,   \* Engine.#particlesProcessed
    isRunning,            \* Engine.#isRunning
    pendingFrames,        \* number of requestAnimationFrame callbacks scheduled
    animationFrameId,     \* TRUE when Engine.#animationFrameId holds an id
    lastFrameTime,        \* Engine.#lastFrameTime (Null before the first frame)
    accumulator,          \* Engine.#accumulator
    tickCount,            \* Engine.tickCount
    stepsTaken,           \* local of #gameLoop
    now,                  \* latest requestAnimationFrame timestamp
    pc,                   \* position inside #gameLoop: "idle", "while", "for"
    particlesToUpdate,    \* local of #stepPhysics: <<handle, y at sort time>> still to visit
    cur,                  \* loop variable `particle` of #stepPhysics (last dispatched)
    target,               \* `targetParticle` returned to the last handler
    brush,                \* the input processInput consumed in the last frame
    written,              \* cells createParticleAt rebuilt in the last frame
    moves,                \* handle -> number of swaps it took part in during this step
    frameSteps,           \* physics steps run by the last/current #gameLoop call
    scan,                 \* locals of the latest groupParticles call made on its own
    fileText,             \* the text the latest loadParticleData call read
    finalMapOut,          \* the ParticleMap that call returned
    boot,                 \* position inside initialize() of main.ts
    render                \* the Renderer, for renderThisFrame calls made on its own

vars == <<width, height, particle, data, dirtyParticles, particlesProcessed,
          isRunning, pendingFrames, animationFrameId, lastFrameTime, accumulator,
          tickCount, stepsTaken, now, pc, particlesToUpdate, cur, target, brush,
          written, moves, frameSteps, scan, fileText, finalMapOut, boot,
          render>>

\* what the game loop never touches
callVars == <<scan, fileText, finalMapOut, render>>

gridVars == <<width, height, particle, data, dirtyParticles>>
loopVars == <<isRunning, pendingFrames, animationFrameId, lastFrameTime,
              accumulator, tickCount, stepsTaken, now>>

-----------------------------------------------------------------------------
(* Bounds *)

SmallW == 3
SmallH == 3
WideH == 5
MaxBrush == 1
MaxNow == 75
EarlyDelta == 10
BrushNow == 30
WideBrush == 2
GroupW == 4
GroupH == 2
BlockH == 3
MaxBlocks == 2
DropW == 10
DropH == 10
DropX == 5
SandW == 7
SandH == 7

(* Program constants *)

PHYSICS_UPDATE_INTERVAL == 25
MaxSubsteps == 60
EqualisationThreshold == 30

Null == 0 - 1
NoParticle == 0 - 1

-----------------------------------------------------------------------------
(* Element registry (the ParticleMap handed to the Grid) *)

TECHNICAL == 0
SOLIDS == 1
LIQUIDS == 2
GASES == 3
SANDS == 4
ELECTRONICS == 5

EMPTY_PARTICLE_ID == 0
FirstUserId == 10
SAND == FirstUserId
WATER == FirstUserId + 1
STONE == FirstUserId + 2
GAS == FirstUserId + 3
OIL == FirstUserId + 4

ElementIds == {EMPTY_PARTICLE_ID, SAND, WATER, STONE, GAS, OIL}

\* further sands, one for each repose angle the tables below cover; the sand
\* of angle a has id SandBase + a
SandAngles == {10, 30, 45, 50, 60, 80}
SandBase == 10 * FirstUserId
SandOf(angle) == SandBase + angle
SandIds == { SandOf(angle) : angle \in SandAngles }

\* Math.round(Math.tan(angle)) and Math.round(1 / Math.tan(angle)) for the
\* angles the registry uses (degrees).
RoundTan(angle) ==
    CASE angle = 10 -> 0 [] angle = 30 -> 1 [] angle = 45 -> 1
      [] angle = 50 -> 1 [] angle = 60 -> 2 [] angle = 80 -> 6
RoundCot(angle) ==
    CASE angle = 10 -> 6 [] angle = 30 -> 2 [] angle = 45 -> 1
      [] angle = 50 -> 1 [] angle = 60 -> 1 [] angle = 80 -> 0

Max2(a, b) == IF a >= b THEN a ELSE b
Min2(a, b) == IF a <= b THEN a ELSE b

Dir(dx, dy) == [dx |-> dx, dy |-> dy]

\* faulty variant of calculateRepose: the steep branch is taken at every angle
calculateReposeSteep(angleDeg) ==
    LET angle == Max2(10, Min2(angleDeg, 80))
    IN  << <<Dir(0, -1)>>,
           <<Dir(1, -RoundTan(angle)), Dir(-1, -RoundTan(angle))>> >>

calculateRepose(angleDeg) ==
    LET angle == Max2(10, Min2(angleDeg, 80))
    IN  IF angle < 50
        THEN << <<Dir(0, -1)>>,
                <<Dir(1, -1), Dir(-1, -1)>>,
                <<Dir(RoundCot(angle), -1), Dir(RoundCot(angle) * (-1), -1)>> >>
        ELSE << <<Dir(0, -1)>>,
                <<Dir(1, -RoundTan(angle)), Dir(-1, -RoundTan(angle))>> >>

ParticleDataBlueprint(id) ==
    CASE id = EMPTY_PARTICLE_ID ->
             [category |-> TECHNICAL, isMovable |-> TRUE, density |-> 0,
              reposeDirections |-> << >>]
      [] id = SAND ->
             [category |-> SANDS, isMovable |-> TRUE, density |-> 2,
              reposeDirections |-> calculateRepose(45)]
      [] id = WATER ->
             [category |-> LIQUIDS, isMovable |-> TRUE, density |-> 1,
              reposeDirections |-> << >>]
      [] id = STONE ->
             [category |-> SOLIDS, isMovable |-> FALSE, density |-> 5,
              reposeDirections |-> << >>]
      [] id = GAS ->
             [category |-> GASES, isMovable |-> TRUE, density |-> 0 - 1,
              reposeDirections |-> << >>]
      [] id = OIL ->
             [category |-> LIQUIDS, isMovable |-> TRUE, density |-> 1,
              reposeDirections |-> << >>]
      [] id \in SandIds ->
             [category |-> SANDS, isMovable |-> TRUE, density |-> 2,
              reposeDirections |-> calculateRepose(id - SandBase)]

-----------------------------------------------------------------------------
(* Grid.  The operators below work on a world value                        *)
(*   G = [width, height, particle, data, dirty, written, processed, moves] *)
(* that bundles the Grid's fields with Engine.#particlesProcessed and the  *)
(* bookkeeping variables `written` and `moves`.                            *)

Cells(G) == 0 .. (G.width * G.height - 1)

isInBounds(G, x, y) == x >= 0 /\ x < G.width /\ y >= 0 /\ y < G.height

\* Grid.getParticleAt: the handle stored at (x, y), NoParticle out of bounds
getParticleAt(G, x, y) ==
    IF ~isInBounds(G, x, y) THEN NoParticle ELSE G.data[y * G.width + x]

ALL_NEIGHBORS ==
    << Dir(-1, 1), Dir(0, 1), Dir(1, 1), Dir(-1, 0), Dir(1, 0),
       Dir(-1, -1), Dir(0, -1), Dir(1, -1) >>

\* Grid.getNeighborOf, from the fields p of a particle
getNeighborOf(G, p, offset) == getParticleAt(G, p.x + offset.dx, p.y + offset.dy)

\* faulty variant of DirtyIndicesOf: the whole grid is marked
EveryIndex(G, p, markNeighborDirty) == 0..(G.width * G.height - 1)

\* the `index` fields markDirty adds for a particle with fields p
DirtyIndicesOf(G, p, markNeighborDirty) ==
    {p.index} \cup
    (IF markNeighborDirty
     THEN { G.particle[getNeighborOf(G, p, ALL_NEIGHBORS[k])].index :
              k \in { k \in 1..Len(ALL_NEIGHBORS) :
                        getNeighborOf(G, p, ALL_NEIGHBORS[k]) # NoParticle } }
     ELSE {})

\* faulty variant of markDirty: the neighbours are never marked
markDirtyAlone(G, p, markNeighborDirty) == [G EXCEPT !.dirty = @ \cup {p.index}]

\* Grid.markDirty
markDirty(G, p, markNeighborDirty) ==
    [G EXCEPT !.dirty = @ \cup DirtyIndicesOf(G, p, markNeighborDirty)]

\* Grid.#createParticle: the id of the new particle, Null when the blueprint
\* has no data for the id
createParticle(particleId) ==
    IF particleId \in ElementIds \cup SandIds THEN particleId ELSE Null

\* Grid.createParticleAt.  The new object takes the handle of the object it
\* replaces in `data`, which nothing else refers to once it is overwritten.
\* `particle.position.x = x` on the null that #createParticle returned is a
\* TypeError: G.threw is set and nothing else is done.
createParticleAt(G, x, y, particleId, markAsDirty, markNeighborDirty) ==
    IF ~isInBounds(G, x, y) THEN G
    ELSE IF createParticle(particleId) = Null THEN [G EXCEPT !.threw = TRUE]
    ELSE LET idx == y * G.width + x
             h   == G.data[idx]
             p   == [id |-> createParticle(particleId), x |-> x, y |-> y, index |-> idx]
             G1  == IF markAsDirty THEN markDirty(G, p, markNeighborDirty) ELSE G
         IN  [G1 EXCEPT !.particle[h] = p,
                        !.data[idx] = h,
                        !.written = @ \cup {idx}]

\* the (i, j) pairs of the two nested loops of fillCircleAt, in loop order
BrushOffsets(radius) ==
    LET n == 2 * radius + 1
    IN  [k \in 1..(n * n) |-> [i |-> ((k - 1) \div n) - radius,
                               j |-> ((k - 1) % n) - radius]]

\* faulty variant of insideRadius: the whole square is drawn
insideSquare(i, j, radius) == TRUE

\* "Don't draw outside the given radius"
insideRadius(i, j, radius) == i * i + j * j <= radius * radius

\* faulty variants of shouldDraw: one draws over any occupant, the other
\* never draws over an occupant, not even to erase it
shouldDrawAlways(G, prev, particleId) == TRUE
shouldDrawOverEmptyOnly(G, prev, particleId) ==
    prev = NoParticle \/ G.particle[prev].id = 0

\* the brush policy: erase always draws, an element draws over EMPTY only
shouldDraw(G, prev, particleId) ==
    particleId = 0 \/ prev = NoParticle \/ G.particle[prev].id = 0

RECURSIVE fillFrom(_, _, _, _, _, _, _)
fillFrom(G, offs, k, x, y, radius, particleId) ==
    IF k > Len(offs) \/ G.threw THEN G
    ELSE LET i  == offs[k].i
             j  == offs[k].j
             px == x + i
             py == y + j
         IN  IF ~insideRadius(i, j, radius)
             THEN fillFrom(G, offs, k + 1, x, y, radius, particleId)
             ELSE IF ~isInBounds(G, px, py)
             THEN fillFrom(G, offs, k + 1, x, y, radius, particleId)
             ELSE IF shouldDraw(G, getParticleAt(G, px, py), particleId)
             THEN fillFrom(createParticleAt(G, px, py, particleId, TRUE, TRUE),
                           offs, k + 1, x, y, radius, particleId)
             ELSE fillFrom(G, offs, k + 1, x, y, radius, particleId)

\* Grid.fillCircleAt (BogEngine.fillCircleAt of part_001 is the same loop)
fillCircleAt(G, x, y, radius, particleId) ==
    fillFrom(G, BrushOffsets(radius), 1, x, y, radius, particleId)

\* Grid.markDirty of the Grid whose #dirtyParticles is a Set<Particle>: the
\* particle with handle h and its existing neighbours are added, as objects
markDirtyObjects(G, h, markNeighborDirty) ==
    [G EXCEPT !.dirty = @ \cup {h} \cup
        (IF markNeighborDirty
         THEN { getNeighborOf(G, G.particle[h], ALL_NEIGHBORS[k]) :
                  k \in 1..Len(ALL_NEIGHBORS) } \ {NoParticle}
         ELSE {})]

\* Grid.createParticleAt with the new particle as a new object: the object
\* that held the cell stays on the heap, and in the dirty set if it was there
createObjectAt(G, x, y, particleId, markAsDirty, markNeighborDirty) ==
    IF ~isInBounds(G, x, y) THEN G
    ELSE IF createParticle(particleId) = Null THEN [G EXCEPT !.threw = TRUE]
    ELSE LET idx == y * G.width + x
             h   == Cardinality(DOMAIN G.particle)
             p   == [id |-> createParticle(particleId), x |-> x, y |-> y, index |-> idx]
             G1  == [G EXCEPT !.particle = [k \in 0..h |-> IF k = h THEN p ELSE G.particle[k]]]
             G2  == IF markAsDirty THEN markDirtyObjects(G1, h, markNeighborDirty) ELSE G1
         IN  [G2 EXCEPT !.data[idx] = h, !.written = @ \cup {idx}]

RECURSIVE fillObjectsFrom(_, _, _, _, _, _, _)
\* the loops of Grid.fillCircleAt over createObjectAt
fillObjectsFrom(G, offs, k, x, y, radius, particleId) ==
    IF k > Len(offs) \/ G.threw THEN G
    ELSE LET px == x + offs[k].i
             py == y + offs[k].j
         IN  IF /\ insideRadius(offs[k].i, offs[k].j, radius)
                /\ isInBounds(G, px, py)
                /\ shouldDraw(G, getParticleAt(G, px, py), particleId)
             THEN fillObjectsFrom(createObjectAt(G, px, py, particleId, TRUE, TRUE),
                                  offs, k + 1, x, y, radius, particleId)
             ELSE fillObjectsFrom(G, offs, k + 1, x, y, radius, particleId)

RECURSIVE visitedFillFrom(_, _, _, _, _, _, _, _)
\* the loops of the newer BogEngine.fillCircleAt, which skips the offsets
\* whose flat index is in visitedList; the index is computed and recorded
\* before the bounds test
visitedFillFrom(G, offs, k, x, y, radius, particleId, visitedList) ==
    IF k > Len(offs) THEN [G |-> G, visitedList |-> visitedList]
    ELSE LET i  == offs[k].i
             j  == offs[k].j
             px == x + i
             py == y + j
             index == py * G.width + px
         IN  IF ~insideRadius(i, j, radius)
             THEN visitedFillFrom(G, offs, k + 1, x, y, radius, particleId, visitedList)
             ELSE IF index \in visitedList
             THEN visitedFillFrom(G, offs, k + 1, x, y, radius, particleId, visitedList)
             ELSE IF ~isInBounds(G, px, py)
             THEN visitedFillFrom(G, offs, k + 1, x, y, radius, particleId,
                                  visitedList \cup {index})
             ELSE IF shouldDraw(G, getParticleAt(G, px, py), particleId)
             THEN visitedFillFrom(createParticleAt(G, px, py, particleId, TRUE, TRUE),
                                  offs, k + 1, x, y, radius, particleId,
                                  visitedList \cup {index})
             ELSE visitedFillFrom(G, offs, k + 1, x, y, radius, particleId,
                                  visitedList \cup {index})

\* BogEngine.fillCircleAt(x, y, radius, particleData, visitedList) of bog_engine.ts
visitedFillCircleAt(G, x, y, radius, particleId, visitedList) ==
    visitedFillFrom(G, BrushOffsets(radius), 1, x, y, radius, particleId, visitedList)

RECURSIVE pathFrom(_, _, _, _, _, _, _, _, _, _)
\* the for loop of getPathBetween from iteration i on; xDelta and yDelta are
\* the values after the swap of the steep case
pathFrom(i, xDelta, yDelta, isSteep, xDir, yDir, err, xCur, yCur, outPositions) ==
    IF i > xDelta THEN outPositions
    ELSE LET turn == err >= 0
             errT == IF turn THEN err - 2 * xDelta ELSE err
             xT   == IF turn /\ isSteep THEN xCur + xDir ELSE xCur
             yT   == IF turn /\ ~isSteep THEN yCur + yDir ELSE yCur
         IN  pathFrom(i + 1, xDelta, yDelta, isSteep, xDir, yDir,
                      errT + 2 * yDelta,
                      IF isSteep THEN xT ELSE xT + xDir,
                      IF isSteep THEN yT + yDir ELSE yT,
                      Append(outPositions, [x |-> xCur, y |-> yCur]))

\* BogEngine.getPathBetween(x1, y1, x2, y2)
getPathBetween(x1, y1, x2, y2) ==
    LET xDir    == IF x1 < x2 THEN 1 ELSE -1
        yDir    == IF y1 < y2 THEN 1 ELSE -1
        xAbs    == IF x2 >= x1 THEN x2 - x1 ELSE x1 - x2
        yAbs    == IF y2 >= y1 THEN y2 - y1 ELSE y1 - y2
        isSteep == yAbs > xAbs
        xDelta  == IF isSteep THEN yAbs ELSE xAbs
        yDelta  == IF isSteep THEN xAbs ELSE yAbs
    IN  pathFrom(0, xDelta, yDelta, isSteep, xDir, yDir, 2 * yDelta - xDelta,
                 x1, y1, << >>)

RECURSIVE strokeFrom(_, _, _, _, _, _)
\* the forEach of interFillCircleAt from path point k on: every circle is
\* filled with the one visitedList of the stroke
strokeFrom(G, path, k, radius, particleId, visitedList) ==
    IF k > Len(path) THEN G
    ELSE LET r == visitedFillCircleAt(G, path[k].x, path[k].y, radius, particleId,
                                      visitedList)
         IN  strokeFrom(r.G, path, k + 1, radius, particleId, r.visitedList)

\* BogEngine.interFillCircleAt(x1, y1, x2, y2, radius, particleData)
interFillCircleAt(G, x1, y1, x2, y2, radius, particleId) ==
    strokeFrom(G, getPathBetween(x1, y1, x2, y2), 1, radius, particleId, {})

-----------------------------------------------------------------------------
(* Movement primitive *)

CategoryOf(G, h) == ParticleDataBlueprint(G.particle[h].id).category
DensityOf(G, h) == ParticleDataBlueprint(G.particle[h].id).density
MovableOf(G, h) == ParticleDataBlueprint(G.particle[h].id).isMovable

\* faulty variant of canSwap: any particle found at the offset is swapped
canSwapAlways(G, h, t) == TRUE

\* faulty variant of canSwap: the density test is left out
canSwapAnyDensity(G, h, t) == MovableOf(G, t)

\* the swap condition of tryMoveParticle (part_002:240)
canSwap(G, h, t) == MovableOf(G, t) /\ DensityOf(G, h) > DensityOf(G, t)

\* faulty variant of exchangeFields: b keeps the index it had
exchangeFieldsStaleIndex(part, a, b) ==
    [part EXCEPT ![a] = [@ EXCEPT !.x = part[b].x, !.y = part[b].y,
                                  !.index = part[b].index],
                 ![b] = [@ EXCEPT !.x = part[a].x, !.y = part[a].y]]

\* "Update their position and indices": a takes b's slot fields and b takes a's
exchangeFields(part, a, b) ==
    [part EXCEPT ![a] = [@ EXCEPT !.x = part[b].x, !.y = part[b].y,
                                  !.index = part[b].index],
                 ![b] = [@ EXCEPT !.x = part[a].x, !.y = part[a].y,
                                  !.index = part[a].index]]

CountMove(G, a, b) ==
    [G EXCEPT !.moves = [@ EXCEPT ![a] = @ + 1, ![b] = @ + 1]]

\* faulty variant of moveInto: the target is not written back to the slot the
\* particle leaves
moveIntoOverwriting(G, h, t, markAsDirty, markNeighborsAsDirty) ==
    LET d1 == [G.data EXCEPT ![G.particle[t].index] = h]
        G1 == [G EXCEPT !.data = d1, !.particle = exchangeFields(G.particle, h, t)]
        G2 == IF markAsDirty THEN markDirty(G1, G1.particle[h], markNeighborsAsDirty) ELSE G1
    IN  CountMove(G2, h, t)

\* the body of the `if` of tryMoveParticle: swap particle h with target t
moveInto(G, h, t, markAsDirty, markNeighborsAsDirty) ==
    LET d1 == [G.data EXCEPT ![G.particle[t].index] = h]
        d2 == [d1 EXCEPT ![G.particle[h].index] = t]
        G1 == [G EXCEPT !.data = d2, !.particle = exchangeFields(G.particle, h, t)]
        G2 == IF markAsDirty THEN markDirty(G1, G1.particle[h], markNeighborsAsDirty) ELSE G1
        G3 == IF markAsDirty THEN markDirty(G2, G2.particle[t], markNeighborsAsDirty) ELSE G2
    IN  CountMove(G3, h, t)

\* BogEngine.swapParticles(particleA, particleB, ...)
swapParticles(G, a, b, markAsDirty, markNeighborsAsDirty) ==
    LET d1 == [G.data EXCEPT ![G.particle[a].index] = b]
        d2 == [d1 EXCEPT ![G.particle[b].index] = a]
        G1 == [G EXCEPT !.data = d2, !.particle = exchangeFields(G.particle, a, b)]
        G2 == IF markAsDirty THEN markDirty(G1, G1.particle[a], markNeighborsAsDirty) ELSE G1
        G3 == IF markAsDirty THEN markDirty(G2, G2.particle[b], markNeighborsAsDirty) ELSE G2
    IN  CountMove(G3, a, b)

\* faulty variant of coinFlips: the coin never asks for the mirror image
noFlips(bumpThemNerds) == {FALSE}

\* `Math.random() > 0.5`, drawn only when bumpThemNerds is set
coinFlips(bumpThemNerds) == IF bumpThemNerds THEN BOOLEAN ELSE {FALSE}

\* the candidate the inner loop looks at: handle at the offset, NoParticle if none
candidateOf(G, h, direction, bumpThemNerds, flip) ==
    LET finalDX == IF bumpThemNerds /\ flip THEN direction.dx * (-1) ELSE direction.dx
    IN  getParticleAt(G, G.particle[h].x + finalDX, G.particle[h].y + direction.dy)

\* the test that lets the inner loop swap with candidate t
viable(G, h, t) == t # NoParticle /\ canSwap(G, h, t)

tierAt(directionGroups, g) ==
    IF g <= Len(directionGroups) THEN 1..Len(directionGroups[g]) ELSE {}

RECURSIVE tryFrom(_, _, _, _, _, _)
\* The loops of tryMoveParticle from tier g on, `remaining` being the entries
\* of tier g the shuffled order has not reached yet; Utilities.shuffleArray can
\* put any of them next. The result is the set of particles the call can
\* return, NoParticle standing for null.
tryFrom(G, h, directionGroups, bumpThemNerds, g, remaining) ==
    IF g > Len(directionGroups) THEN {NoParticle}
    ELSE IF remaining = {}
    THEN tryFrom(G, h, directionGroups, bumpThemNerds, g + 1, tierAt(directionGroups, g + 1))
    ELSE UNION {
           LET cands == { candidateOf(G, h, directionGroups[g][k], bumpThemNerds, flip) :
                            flip \in coinFlips(bumpThemNerds) }
           IN  { t \in cands : viable(G, h, t) } \cup
               (IF \E t \in cands : ~viable(G, h, t)
                THEN tryFrom(G, h, directionGroups, bumpThemNerds, g, remaining \ {k})
                ELSE {}) :
           k \in remaining }

\* every particle Grid.tryMoveParticle can return for this call
tryTargets(G, h, directionGroups, bumpThemNerds) ==
    tryFrom(G, h, directionGroups, bumpThemNerds, 1, tierAt(directionGroups, 1))

\* Grid.tryMoveParticle when its random draws lead it to t:
\* [G |-> world after the call, target |-> returned particle]
tryMoveParticle(G, h, directionGroups, bumpThemNerds, markAsDirty, markNeighborsAsDirty, t) ==
    IF t = NoParticle THEN [G |-> G, target |-> NoParticle]
    ELSE [G |-> moveInto(G, h, t, markAsDirty, markNeighborsAsDirty), target |-> t]

-----------------------------------------------------------------------------
(* Category handlers *)

\* faulty variant of LiquidDirections: one tier holding every offset
LiquidDirectionsFlat ==
    << <<Dir(0, -1), Dir(-1, -1), Dir(1, -1), Dir(-1, 0), Dir(1, 0)>> >>

LiquidDirections ==
    << <<Dir(0, -1)>>, <<Dir(-1, -1), Dir(1, -1)>>, <<Dir(-1, 0), Dir(1, 0)>> >>

\* faulty variant of afterMove: nothing is added to the processed set
afterMoveUnmarked(res, h) == res

\* what every handler does with the result of tryMoveParticle
afterMove(res, h) ==
    IF res.target = NoParticle THEN res
    ELSE [res EXCEPT !.G.processed =
              @ \cup {res.G.particle[h].index, res.G.particle[res.target].index}]

\* the body of the `if` of tryMoveParticle on the Grid with a set of objects;
\* h need not be the occupant of the cell its index names
moveObjectInto(G, h, t) ==
    LET d1 == [G.data EXCEPT ![G.particle[t].index] = h]
        d2 == [d1 EXCEPT ![G.particle[h].index] = t]
        G1 == [G EXCEPT !.data = d2, !.particle = exchangeFields(G.particle, h, t)]
    IN  markDirtyObjects(markDirtyObjects(G1, h, TRUE), t, TRUE)

\* #handleSands of the Engine that runs on that Grid (utils.ts:269-285)
handleSandObject(G, h, t) ==
    IF t = NoParticle THEN [G |-> G, target |-> NoParticle]
    ELSE afterMove([G |-> moveObjectInto(G, h, t), target |-> t], h)

handleLiquids(G, h, t) ==
    afterMove(tryMoveParticle(G, h, LiquidDirections, FALSE, TRUE, TRUE, t), h)

\* the direction groups #handleGases builds from its random key
GasDirections(key) == << <<ALL_NEIGHBORS[key]>> >>

handleGases(G, h, key, t) ==
    afterMove(tryMoveParticle(G, h, GasDirections(key), FALSE, TRUE, TRUE, t), h)

SandDirections(G, h) == ParticleDataBlueprint(G.particle[h].id).reposeDirections

handleSands(G, h, t) ==
    afterMove(tryMoveParticle(G, h, SandDirections(G, h), TRUE, TRUE, TRUE, t), h)

-----------------------------------------------------------------------------
(* Liquid grouping and equalisation *)

UP == Dir(0, 1)
LEFT == Dir(-1, 0)

NoGroup == 0 - 1

EmptyPayload == [liquidParticle |-> << >>, emptyParticle |-> << >>]

\* `if (isUpParticleEmpty) { push(particle); push(upParticle) }`
pushPair(eq, gi, isUpEmpty, h, up) ==
    IF isUpEmpty
    THEN [eq EXCEPT ![gi] = [liquidParticle |-> Append(@.liquidParticle, h),
                             emptyParticle |-> Append(@.emptyParticle, up)]]
    ELSE eq

\* the merge of the left group into the up group (engine.ts:360-378)
mergeGroups(S, leftGroupIndex, upGroupIndex) ==
    IF leftGroupIndex = upGroupIndex THEN S
    ELSE [groups |-> [S.groups EXCEPT ![leftGroupIndex] = << >>],
          eq |-> [S.eq EXCEPT
                    ![upGroupIndex] =
                        [liquidParticle |-> @.liquidParticle \o S.eq[leftGroupIndex].liquidParticle,
                         emptyParticle |-> @.emptyParticle \o S.eq[leftGroupIndex].emptyParticle],
                    ![leftGroupIndex] = EmptyPayload],
          groupMap |-> [i \in DOMAIN S.groupMap |->
                          IF \E k \in 1..Len(S.groups[leftGroupIndex]) :
                                 S.groups[leftGroupIndex][k] = i
                          THEN upGroupIndex ELSE S.groupMap[i]]]

\* one iteration of the scan of groupParticles at cell (x, y)
groupCell(G, S, x, y, category) ==
    LET index == y * G.width + x
        h == getParticleAt(G, x, y)
    IN  IF h = NoParticle \/ CategoryOf(G, h) # category THEN S
        ELSE
        LET p == G.particle[h]
            up == getNeighborOf(G, p, UP)
            left == getNeighborOf(G, p, LEFT)
            hasUp == up # NoParticle /\ CategoryOf(G, up) = category
                       /\ G.particle[up].id = p.id
            hasLeft == left # NoParticle /\ CategoryOf(G, left) = category
                         /\ G.particle[left].id = p.id
            leftIndex == y * G.width + (x - 1)
            upIndex == (y + 1) * G.width + x
            isUpEmpty == up # NoParticle /\ G.particle[up].id = 0
        IN  IF ~hasLeft /\ ~hasUp
            THEN LET gi == Len(S.eq) + 1
                 IN  [groups |-> Append(S.groups, <<index>>),
                      eq |-> pushPair(Append(S.eq, EmptyPayload), gi, isUpEmpty, h, up),
                      groupMap |-> [S.groupMap EXCEPT ![index] = gi]]
            ELSE IF hasLeft /\ ~hasUp
            THEN LET gi == S.groupMap[leftIndex]
                 IN  [groups |-> [S.groups EXCEPT ![gi] = Append(@, index)],
                      eq |-> pushPair(S.eq, gi, isUpEmpty, h, up),
                      groupMap |-> [S.groupMap EXCEPT ![index] = gi]]
            ELSE IF ~hasLeft /\ hasUp
            THEN LET gi == S.groupMap[upIndex]
                 IN  [groups |-> [S.groups EXCEPT ![gi] = Append(@, index)],
                      eq |-> pushPair(S.eq, gi, isUpEmpty, h, up),
                      groupMap |-> [S.groupMap EXCEPT ![index] = gi]]
            ELSE LET gi == S.groupMap[upIndex]
                     S1 == [groups |-> [S.groups EXCEPT ![gi] = Append(@, index)],
                            eq |-> pushPair(S.eq, gi, isUpEmpty, h, up),
                            groupMap |-> [S.groupMap EXCEPT ![index] = gi]]
                 IN  mergeGroups(S1, S1.groupMap[leftIndex], gi)

RECURSIVE scanFrom(_, _, _, _, _)
\* the two nested loops over the cells numbered lo..hi in visiting order (top
\* row first, left to right); the range is halved so that the evaluation
\* stays shallow, the cells are still visited one after the other
scanFrom(G, S, lo, hi, category) ==
    IF lo = hi
    THEN groupCell(G, S, lo % G.width, G.height - 1 - (lo \div G.width), category)
    ELSE LET mid == (lo + hi) \div 2
             firstHalf == scanFrom(G, S, lo, mid, category)
         IN  IF Len(firstHalf.eq) >= 0   \* the first half is complete here
             THEN scanFrom(G, firstHalf, mid + 1, hi, category)
             ELSE S

\* the scan state when groupParticles has visited every cell
scanGroups(G, category) ==
    scanFrom(G, [groups |-> << >>, eq |-> << >>,
                 groupMap |-> [i \in Cells(G) |-> NoGroup]],
             0, G.width * G.height - 1, category)

passesThreshold(group) == Len(group.liquidParticle) > EqualisationThreshold

\* Engine.groupParticles: the payloads that pass the filter, in order
groupParticles(G, category) ==
    LET eq == scanGroups(G, category).eq
    IN  SelectSeq(eq, passesThreshold)

RECURSIVE insertByY(_, _, _, _)
\* insert h after every entry that does not have to come after it (stable)
insertByY(G, sorted, h, descending) ==
    IF sorted = << >> THEN <<h>>
    ELSE LET last == sorted[Len(sorted)]
             before == IF descending
                       THEN G.particle[h].y > G.particle[last].y
                       ELSE G.particle[h].y < G.particle[last].y
         IN  IF before
             THEN Append(insertByY(G, SubSeq(sorted, 1, Len(sorted) - 1), h, descending), last)
             ELSE Append(sorted, h)

RECURSIVE sortByY(_, _, _)
\* Array.prototype.sort with a comparator on position.y (a stable sort)
sortByY(G, list, descending) ==
    IF list = << >> THEN << >>
    ELSE insertByY(G, sortByY(G, SubSeq(list, 1, Len(list) - 1), descending),
                   list[Len(list)], descending)

\* faulty variant of shouldEqualise: the comparison is turned round
shouldEqualiseUp(G, liquidPar, emptyPar) ==
    G.particle[liquidPar].y < G.particle[emptyPar].y

\* the test that guards one equalisation swap (engine.ts:254)
shouldEqualise(G, liquidPar, emptyPar) ==
    G.particle[liquidPar].y > G.particle[emptyPar].y

RECURSIVE equaliseFrom(_, _, _, _)
equaliseFrom(G, liquidParticles, emptyParticle, i) ==
    IF i > Len(liquidParticles) THEN G
    ELSE LET liquidPar == liquidParticles[i]
             emptyPar == emptyParticle[i]
         IN  IF shouldEqualise(G, liquidPar, emptyPar)
             THEN LET G1 == swapParticles(G, liquidPar, emptyPar, TRUE, TRUE)
                      G2 == [G1 EXCEPT !.processed =
                                @ \cup {G1.particle[liquidPar].index,
                                        G1.particle[emptyPar].index}]
                  IN  equaliseFrom(G2, liquidParticles, emptyParticle, i + 1)
             ELSE equaliseFrom(G, liquidParticles, emptyParticle, i + 1)

RECURSIVE simulateFrom(_, _, _)
simulateFrom(G, liquidGroup, g) ==
    IF g > Len(liquidGroup) THEN G
    ELSE simulateFrom(
             equaliseFrom(G, sortByY(G, liquidGroup[g].liquidParticle, TRUE),
                          sortByY(G, liquidGroup[g].emptyParticle, FALSE), 1),
             liquidGroup, g + 1)

\* Engine.#simulateEqualisation
simulateEqualisation(G, liquidGroup) == simulateFrom(G, liquidGroup, 1)

-----------------------------------------------------------------------------
(* Loader (loader.ts).  A text is a sequence of one-character strings.  A    *)
(* number read from text is [nan, v]: NaN, or the integer v.  An optional    *)
(* field is a set: empty when undefined, else holding its value.             *)

Digits == <<"0", "1", "2", "3", "4", "5", "6", "7", "8", "9">>
isDigit(c) == \E d \in 1..Len(Digits) : Digits[d] = c
digitOf(c) == (CHOOSE d \in 1..Len(Digits) : Digits[d] = c) - 1

NaN == [nan |-> TRUE, v |-> 0]
Num(n) == [nan |-> FALSE, v |-> n]

RECURSIVE skipSpaces(_, _)
\* index of the first character at or after i that is not white space
skipSpaces(text, i) ==
    IF i <= Len(text) /\ text[i] = " " THEN skipSpaces(text, i + 1) ELSE i

RECURSIVE readDigits(_, _, _, _)
\* the digits from index i on: [n |-> their value, k |-> how many were read]
readDigits(text, i, n, k) ==
    IF i <= Len(text) /\ isDigit(text[i])
    THEN readDigits(text, i + 1, n * 10 + digitOf(text[i]), k + 1)
    ELSE [n |-> n, k |-> k]

\* parseInt(text, 10): leading white space, an optional sign, then the
\* longest run of digits; whatever follows is ignored; NaN without a digit
parseInt(text) ==
    LET i == skipSpaces(text, 1)
        signed == i <= Len(text) /\ text[i] \in {"-", "+"}
        r == readDigits(text, IF signed THEN i + 1 ELSE i, 0, 0)
    IN  IF r.k = 0 THEN NaN
        ELSE Num(IF signed /\ text[i] = "-" THEN 0 - r.n ELSE r.n)

\* parseFloat(text), for texts without a fraction or an exponent
parseFloat(text) == parseInt(text)

\* the RawParticleData of a block whose header was just accepted
RawEmpty ==
    [name |-> {}, category |-> {}, base_color |-> {}, variant_color |-> {},
     is_movable |-> {}, density |-> {}, max_concentration |-> {},
     repose_angle |-> {}]

\* the switch on the key of a `key: value` line
assignKey(currentData, key, value) ==
    CASE key = "name" -> [currentData EXCEPT !.name = {value}]
      [] key = "category" -> [currentData EXCEPT !.category = {parseInt(value)}]
      [] key = "base_color" -> [currentData EXCEPT !.base_color = {value}]
      [] key = "variant_color" -> [currentData EXCEPT !.variant_color = {value}]
      [] key = "is_movable" ->
             [currentData EXCEPT !.is_movable = {value = <<"t", "r", "u", "e">>}]
      [] key = "density" -> [currentData EXCEPT !.density = {parseFloat(value)}]
      [] key = "max_concentration" ->
             [currentData EXCEPT !.max_concentration = {parseInt(value)}]
      [] key = "repose_angle" ->
             [currentData EXCEPT !.repose_angle = {parseFloat(value)}]
      [] OTHER -> currentData

\* faulty variant of acceptsId: the reserved ids are let through
acceptsAnyNumber(id) == ~id.nan

\* "Reject invalid (<0) and reserved IDs (<10)"
acceptsId(id) == ~(id.nan \/ id.v < FirstUserId)

\* one iteration of the loop over the lines; st holds rawRetrievedData,
\* processedIds and currentId
readLine(st, line) ==
    IF line.kind = "skip" THEN st
    ELSE IF line.kind = "header"
    THEN LET id == parseInt(line.text)
         IN  IF ~acceptsId(id) THEN [st EXCEPT !.currentId = {}]
             ELSE IF id.v \in st.processedIds THEN [st EXCEPT !.currentId = {}]
             ELSE [rawRetrievedData |->
                       [i \in st.processedIds \cup {id.v} |->
                          IF i = id.v THEN RawEmpty ELSE st.rawRetrievedData[i]],
                   processedIds |-> st.processedIds \cup {id.v},
                   currentId |-> {id.v}]
    ELSE IF st.currentId = {} THEN st
    ELSE LET currentId == CHOOSE i \in st.currentId : TRUE
         IN  [st EXCEPT !.rawRetrievedData[currentId] =
                            assignKey(@, line.key, line.text)]

RECURSIVE readLines(_, _, _)
readLines(st, lines, i) ==
    IF i > Len(lines) THEN st
    ELSE readLines(readLine(st, lines[i]), lines, i + 1)

\* "Base particle should have these properties, discard if it doesn't"
hasCoreProperties(rawData) ==
    /\ rawData.name # {}
    /\ rawData.category # {}
    /\ rawData.base_color # {}
    /\ rawData.variant_color # {}
    /\ rawData.is_movable # {}
    /\ rawData.density # {}

\* the chain of `rawData.category === 1 ... 5`
hasKnownCategory(rawData) ==
    \E c \in rawData.category : ~c.nan /\ c.v \in SOLIDS..ELECTRONICS

only(field) == CHOOSE v \in field : TRUE

\* Utilities.calculateRepose of an angle that is undefined or NaN: the
\* comparison with 50 fails and the rounded tangent is NaN
reposeOfNaN == << <<Dir(0, 0 - 1)>>, <<[dx |-> 1, dy |-> NaN], [dx |-> 0 - 1, dy |-> NaN]>> >>

\* the entry the checksum loop stores for a block that passed both tests
particleDataOf(numberId, rawData) ==
    LET category == only(rawData.category).v
    IN  [id |-> numberId,
         name |-> only(rawData.name),
         baseColor |-> only(rawData.base_color),
         variantColor |-> only(rawData.variant_color),
         isMovable |-> only(rawData.is_movable),
         density |-> only(rawData.density),
         category |-> category,
         maxConcentration |-> IF category = LIQUIDS THEN rawData.max_concentration ELSE {},
         reposeAngle |-> IF category = SANDS THEN rawData.repose_angle ELSE {},
         reposeDirections |->
             IF category # SANDS THEN << >>
             ELSE IF rawData.repose_angle = {} \/ only(rawData.repose_angle).nan
             THEN reposeOfNaN
             ELSE calculateRepose(only(rawData.repose_angle).v)]

\* "Hardcoded Technical Particles (ID 0-9)"
EmptyData ==
    [id |-> EMPTY_PARTICLE_ID,
     name |-> <<"E", "m", "p", "t", "y">>,
     baseColor |-> <<"#", "0", "E", "0", "E", "1", "1">>,
     variantColor |-> <<"#", "0", "E", "0", "E", "1", "1">>,
     isMovable |-> TRUE,
     density |-> Num(0),
     category |-> TECHNICAL,
     maxConcentration |-> {},
     reposeAngle |-> {},
     reposeDirections |-> << >>]

\* loadParticleData, from the text of the file to the map it returns
loadParticleData(text) ==
    LET st == readLines([rawRetrievedData |-> << >>, processedIds |-> {},
                         currentId |-> {}], text, 1)
        raw == st.rawRetrievedData
        kept == { id \in DOMAIN raw : hasCoreProperties(raw[id]) /\ hasKnownCategory(raw[id]) }
    IN  [loaded |-> TRUE,
         map |-> [id \in kept \cup {EMPTY_PARTICLE_ID} |->
                    IF id = EMPTY_PARTICLE_ID THEN EmptyData
                    ELSE particleDataOf(id, raw[id])]]

-----------------------------------------------------------------------------
(* Renderer (engine.ts:462-658).  A colour is <<r, g, b, a>>; a frame buffer   *)
(* maps a pixel index to a colour.  A queued pixel is [index, value] as in    *)
(* the code, with the sim-space cell (x, y) it was computed for kept beside   *)
(* it as bookkeeping.                                                         *)

OutlineColor == <<227, 227, 227, 180>>
\* "#0E0E11", the base and variant colour of the hardcoded EMPTY element
EmptyColor == <<14, 14, 17, 255>>
\* a fresh Uint8ClampedArray holds zeros
Blank == <<0, 0, 0, 0>>

\* particle.color; only EMPTY has a colour the sources fix, every other
\* element is given an opaque grey of its own here
ColorOf(id) == IF id = EMPTY_PARTICLE_ID THEN EmptyColor ELSE <<id, id, id, 255>>

\* Math.round(n / d) for n >= 0, d > 0
roundDiv(n, d) == (2 * n + d) \div (2 * d)

\* faulty variant of blendChannel: the value is truncated, not rounded
blendChannelFloor(s, d, sa) == (s * sa + d * (255 - sa)) \div 255

\* Math.round(s * normalSA + d * (1.0 - normalSA)) with normalSA = sa / 255.0
blendChannel(s, d, sa) == roundDiv(s * sa + d * (255 - sa), 255)

\* one iteration of addBuffer on a pixel the buffer has
blend(src, dst) ==
    << blendChannel(src[1], dst[1], src[4]),
       blendChannel(src[2], dst[2], src[4]),
       blendChannel(src[3], dst[3], src[4]),
       Min2(dst[4], src[4]) >>

RECURSIVE addFrom(_, _, _, _)
\* Renderer.addBuffer from pixel i on: [buffer, log], the log listing for
\* every pixel blended what was read and what was written.  A pixel whose
\* index the typed array does not have reads undefined and its writes are
\* dropped.
addFrom(baseBuffer, log, overrideBuffer, i) ==
    IF i > Len(overrideBuffer) THEN [buffer |-> baseBuffer, log |-> log]
    ELSE LET p == overrideBuffer[i]
         IN  IF p.index \notin DOMAIN baseBuffer
             THEN addFrom(baseBuffer, log, overrideBuffer, i + 1)
             ELSE LET out == blend(p.value, baseBuffer[p.index])
                  IN  addFrom([baseBuffer EXCEPT ![p.index] = out],
                              Append(log, [index |-> p.index, src |-> p.value,
                                           dst |-> baseBuffer[p.index], out |-> out]),
                              overrideBuffer, i + 1)

addBuffer(baseBuffer, overrideBuffer) == addFrom(baseBuffer, << >>, overrideBuffer, 1)

\* faulty variant of flippedIndex: the row is not flipped
plainIndex(x, y, w, h) == y * w + x

\* the index queueParticles and processQueuedParticles compute for a cell
flippedIndex(x, y, w, h) == (h - 1 - y) * w + x

\* the pixel getBrushOutline pushes for the cell (x, y)
outlinePixel(x, y, w, h) ==
    [index |-> (h - y) * w + x, value |-> OutlineColor, x |-> x, y |-> y]

\* the body of the two loops of plotOctets for one bigY and one bigX
plotOne(centerX, centerY, x, y, bigX, bigY, w, h) ==
    LET newX == centerX + x * bigX
        newY == centerY + y * bigY
        newx == centerX + y * bigX
        newy == centerY + x * bigY
    IN  (IF newX >= 0 /\ newX < w /\ newY >= 0 /\ newY < h
         THEN <<outlinePixel(newX, newY, w, h)>> ELSE << >>)
        \o (IF newx >= 0 /\ newx < w /\ newy >= 0 /\ newy < h
            THEN <<outlinePixel(newx, newy, w, h)>> ELSE << >>)

plotOctets(centerX, centerY, x, y, w, h) ==
    plotOne(centerX, centerY, x, y, 0 - 1, 0 - 1, w, h)
    \o plotOne(centerX, centerY, x, y, 1, 0 - 1, w, h)
    \o plotOne(centerX, centerY, x, y, 0 - 1, 1, w, h)
    \o plotOne(centerX, centerY, x, y, 1, 1, w, h)

RECURSIVE outlineFrom(_, _, _, _, _, _, _)
\* the while loop of getBrushOutline
outlineFrom(centerX, centerY, x, y, P, w, h) ==
    IF ~(y < x) THEN << >>
    ELSE LET y1 == y + 1
             x1 == IF P < 0 THEN x ELSE x - 1
             P1 == IF P < 0 THEN P + 2 * y1 + 1 ELSE P + 2 * (y1 - x1) + 1
         IN  plotOctets(centerX, centerY, x1, y1, w, h)
             \o outlineFrom(centerX, centerY, x1, y1, P1, w, h)

\* Renderer.getBrushOutline
getBrushOutline(centerX, centerY, radius, w, h) ==
    plotOctets(centerX, centerY, radius, 0, w, h)
    \o outlineFrom(centerX, centerY, radius, 0, 0, w, h)

\* Renderer.processQueuedParticles: the frame buffer after the writes
processQueuedParticles(frameBuffer, queuedParticles, G) ==
    [i \in DOMAIN frameBuffer |->
        IF \E q \in queuedParticles :
               flippedIndex(G.particle[q].x, G.particle[q].y, G.width, G.height) = i
        THEN ColorOf(G.particle[CHOOSE q \in queuedParticles :
               flippedIndex(G.particle[q].x, G.particle[q].y, G.width, G.height) = i].id)
        ELSE frameBuffer[i]]

\* Renderer.renderThisFrame: `painted` lists the writes of the particle pass,
\* `handed` the pixels given to addBuffer, `blends` what addBuffer blended,
\* `shown` the buffer given to putImageData
renderThisFrame(R, G) ==
    LET ui == IF R.isBrushOutlineVisible
              THEN getBrushOutline(R.mouseX, R.mouseY, R.currentBrushSize,
                                   G.width, G.height)
              ELSE R.queuedUIPixels
        fb == processQueuedParticles(R.frameBuffer, R.queuedParticles, G)
        over == addBuffer(fb, R.queuedOverlayPixels)
        top == addBuffer(over.buffer, ui)
    IN  [R EXCEPT !.frameBuffer = fb,
                  !.shown = top.buffer,
                  !.painted = { [index |-> flippedIndex(G.particle[q].x, G.particle[q].y,
                                                       G.width, G.height),
                                 x |-> G.particle[q].x, y |-> G.particle[q].y] :
                                q \in R.queuedParticles },
                  !.handed = R.queuedOverlayPixels \o ui,
                  !.blends = over.log \o top.log,
                  !.queuedParticles = {},
                  !.queuedOverlayPixels = << >>,
                  !.queuedUIPixels = << >>,
                  !.done = TRUE]

-----------------------------------------------------------------------------

(* State *)

World ==
    [width |-> width, height |-> height, particle |-> particle, data |-> data,
     dirty |-> dirtyParticles, written |-> written,
     processed |-> particlesProcessed, moves |-> moves, threw |-> FALSE]

SetWorld(G) ==
    /\ particle' = G.particle
    /\ data' = G.data
    /\ dirtyParticles' = G.dirty
    /\ written' = G.written
    /\ particlesProcessed' = G.processed
    /\ moves' = G.moves
    /\ UNCHANGED <<width, height>>

\* no groupParticles call, no loadParticleData call made yet
NoScan ==
    [groups |-> << >>, eq |-> << >>, groupMap |-> << >>, done |-> FALSE,
     applied |-> FALSE]
NoFile == << >>
NoMap == [loaded |-> FALSE, map |-> << >>]

\* no Renderer built
NoRender ==
    [mouseX |-> 0, mouseY |-> 0, currentBrushSize |-> 0,
     isBrushOutlineVisible |-> FALSE, frameBuffer |-> << >>,
     queuedParticles |-> {}, queuedOverlayPixels |-> << >>,
     queuedUIPixels |-> << >>, shown |-> << >>, painted |-> {},
     handed |-> << >>, blends |-> << >>, done |-> FALSE]

NoMoves(n) == [h \in 0..(n - 1) |-> 0]

NoInput == [mode |-> "none", x |-> 0, y |-> 0, size |-> 0, id |-> 0]

\* `brush` holds the arguments of the fill call the last frame made
NoCall == [by |-> "none", x |-> 0, y |-> 0, radius |-> 0, id |-> 0, threw |-> FALSE]

\* Grid constructor: every cell EMPTY, every cell dirty
InitGrid(w, h) ==
    /\ width = w
    /\ height = h
    /\ particle = [k \in 0..(w * h - 1) |->
                     [id |-> EMPTY_PARTICLE_ID, x |-> k % w, y |-> k \div w, index |-> k]]
    /\ data = [k \in 0..(w * h - 1) |-> k]
    /\ dirtyParticles = 0..(w * h - 1)
    /\ moves = NoMoves(w * h)

\* Engine constructor
InitSmall ==
    /\ InitGrid(SmallW, SmallH)
    /\ particlesProcessed = {}
    /\ isRunning = FALSE
    /\ pendingFrames = 0
    /\ animationFrameId = FALSE
    /\ lastFrameTime = Null
    /\ accumulator = 0
    /\ tickCount = 0
    /\ stepsTaken = 0
    /\ now = 0
    /\ pc = "idle"
    /\ particlesToUpdate = {}
    /\ cur = NoParticle
    /\ target = NoParticle
    /\ brush = NoCall
    /\ written = {}
    /\ frameSteps = 0
    /\ scan = NoScan
    /\ render = NoRender
    /\ fileText = NoFile
    /\ finalMapOut = NoMap
    /\ boot = "engine"

\* A basin painted cell by cell and left alone for one physics step: a floor
\* row of water, a water column at x = 0 behind a stone wall at
\* x = 1 with a stone lid on it, and EMPTY over the rest of the floor row.
\* EqualisationThreshold floor cells have EMPTY above them, so the group
\* stays under the filter and nothing moves; the dirty set is empty.
WideW == EqualisationThreshold + 2
WideScene(x, y) ==
    IF y = 0 THEN WATER
    ELSE IF x = 0 /\ y < WideH - 2 THEN WATER
    ELSE IF x = 1 /\ y < WideH - 2 THEN STONE
    ELSE IF x = 0 /\ y = WideH - 2 THEN STONE
    ELSE EMPTY_PARTICLE_ID

InitWide ==
    /\ width = WideW
    /\ height = WideH
    /\ particle = [k \in 0..(WideW * WideH - 1) |->
                     [id |-> WideScene(k % WideW, k \div WideW),
                      x |-> k % WideW, y |-> k \div WideW, index |-> k]]
    /\ data = [k \in 0..(WideW * WideH - 1) |-> k]
    /\ dirtyParticles = {}
    /\ moves = NoMoves(WideW * WideH)
    /\ particlesProcessed = {}
    /\ isRunning = TRUE
    /\ pendingFrames = 1
    /\ animationFrameId = TRUE
    /\ lastFrameTime = PHYSICS_UPDATE_INTERVAL
    /\ accumulator = 0
    /\ tickCount = 1
    /\ stepsTaken = 0
    /\ now = PHYSICS_UPDATE_INTERVAL
    /\ pc = "idle"
    /\ particlesToUpdate = {}
    /\ cur = NoParticle
    /\ target = NoParticle
    /\ brush = NoCall
    /\ written = {}
    /\ frameSteps = 0
    /\ scan = NoScan
    /\ render = NoRender
    /\ fileText = NoFile
    /\ finalMapOut = NoMap
    /\ boot = "started"

Init == InitSmall \/ InitWide

-----------------------------------------------------------------------------
(* Input *)

\* InputManager.processInput: the cursor test and the call of fillCircleAt
cursorInReach(G, b) ==
    /\ b.x < G.width + b.size /\ b.x >= 0 - b.size
    /\ b.y < G.height + b.size /\ b.y >= 0 - b.size

\* the fill call processInput makes for pointer state b, NoCall if none
fillCallOf(G, b, by) ==
    IF b.mode # "none" /\ cursorInReach(G, b)
    THEN [by |-> by, x |-> b.x, y |-> b.y - 1, radius |-> b.size,
          id |-> IF b.mode = "paint" THEN b.id ELSE 0, threw |-> FALSE]
    ELSE NoCall

\* InputManager.processInput; `by` names the brush that serves the call:
\* Grid.fillCircleAt, or BogEngine.fillCircleAt with a fresh visited list
processInput(G, b, by) ==
    LET c == fillCallOf(G, b, by)
    IN  IF c.by = "none" THEN G
        ELSE IF by = "Grid" THEN fillCircleAt(G, c.x, c.y, c.radius, c.id)
        ELSE IF by = "Objects"
        THEN fillObjectsFrom(G, BrushOffsets(c.radius), 1, c.x, c.y, c.radius, c.id)
        ELSE visitedFillCircleAt(G, c.x, c.y, c.radius, c.id, {}).G

PaintIds == {SAND, WATER, STONE, GAS}

\* what the pointer may hold when a frame starts: idle, painting or erasing,
\* at any place the cursor test lets through for some brush of size <= maxSize
PointerStates(maxSize) ==
    {NoInput} \cup
    { [mode |-> m, x |-> x, y |-> y, size |-> r, id |-> e] :
        m \in {"paint"}, x \in (0 - maxSize)..(SmallW + maxSize - 1),
        y \in (0 - maxSize)..(SmallH + maxSize - 1),
        r \in 0..maxSize, e \in PaintIds } \cup
    { [mode |-> m, x |-> x, y |-> y, size |-> r, id |-> e] :
        m \in {"erase"}, x \in (0 - maxSize)..(SmallW + maxSize - 1),
        y \in (0 - maxSize)..(SmallH + maxSize - 1),
        r \in 0..maxSize, e \in {EMPTY_PARTICLE_ID} }

SmallInputs == PointerStates(MaxBrush)

\* in the basin the pointer only erases the lid of the water column
WideInputs ==
    {NoInput, [mode |-> "erase", x |-> 0, y |-> WideH - 1, size |-> 0, id |-> EMPTY_PARTICLE_ID]}

Inputs == IF width = WideW THEN WideInputs ELSE SmallInputs

-----------------------------------------------------------------------------
(* Engine loop *)

\* #gameLoop(timestamp) from its first line to the head of the while loop;
\* consumed is 1 when the call is the animation-frame callback and 0 when it
\* is the direct call made by start()
gameLoop(timestamp, b, consumed, by) ==
    IF lastFrameTime = Null \/ lastFrameTime = 0
    THEN \* "Skip the first frame"
         /\ lastFrameTime' = timestamp
         /\ pendingFrames' = pendingFrames - consumed + 1
         /\ animationFrameId' = TRUE
         /\ UNCHANGED <<width, height, particle, data, dirtyParticles,
                        particlesProcessed, accumulator, tickCount, stepsTaken, pc,
                        particlesToUpdate, cur, target, brush, written, moves,
                        frameSteps>>
    ELSE /\ lastFrameTime' = timestamp
         /\ brush' = [fillCallOf(World, b, by) EXCEPT
                        !.threw = processInput([World EXCEPT !.written = {}], b, by).threw]
         /\ SetWorld(processInput([World EXCEPT !.written = {}], b, by))
         /\ pendingFrames' = pendingFrames - consumed
         /\ IF processInput([World EXCEPT !.written = {}], b, by).threw
            THEN \* the exception leaves the callback: nothing below runs
                 UNCHANGED <<accumulator, stepsTaken, frameSteps, pc>>
            ELSE /\ accumulator' = accumulator + (timestamp - lastFrameTime)
                 /\ stepsTaken' = 0
                 /\ frameSteps' = 0
                 /\ pc' = "while"
         /\ UNCHANGED <<animationFrameId, tickCount, particlesToUpdate, cur, target>>

\* faulty variant of mayStart: start() does not look at the flag
startsAnyway(running) == TRUE

\* `if (!this.#isRunning)` of start()
mayStart(running) == ~running

\* Engine.start()
Start(inputs) ==
    /\ boot \in {"engine", "started"}
    /\ pc = "idle"
    /\ IF mayStart(isRunning)
       THEN /\ isRunning' = TRUE
            /\ \E b \in inputs : gameLoop(0, b, 0, "Grid")
            /\ boot' = "started"
            /\ UNCHANGED <<now, callVars>>
       ELSE UNCHANGED vars

\* Engine.stop()
Stop ==
    /\ pc = "idle"
    /\ isRunning
    /\ isRunning' = FALSE
    /\ pendingFrames' = IF animationFrameId /\ pendingFrames > 0
                        THEN pendingFrames - 1 ELSE pendingFrames
    /\ animationFrameId' = FALSE
    /\ UNCHANGED <<width, height, particle, data, dirtyParticles,
                   particlesProcessed, lastFrameTime, accumulator, tickCount,
                   stepsTaken, now, pc, particlesToUpdate, cur, target, brush,
                   written, moves, frameSteps>>
    /\ UNCHANGED <<callVars, boot>>

\* stop(), called before the accumulator has gone negative
StopInTime == accumulator >= 0 /\ Stop

\* the browser runs a scheduled animation-frame callback delta ms later
Frame(deltas, inputs, maxNow, by) ==
    /\ pc = "idle"
    /\ pendingFrames > 0
    /\ now < maxNow
    /\ \E delta \in deltas :
         /\ now' = now + delta
         /\ IF isRunning
            THEN \E b \in inputs : gameLoop(now + delta, b, 1, by)
            ELSE \* `if (!this.#isRunning) return;`
                 /\ pendingFrames' = pendingFrames - 1
                 /\ UNCHANGED <<width, height, particle, data, dirtyParticles,
                                particlesProcessed, animationFrameId, lastFrameTime,
                                accumulator, tickCount, stepsTaken, pc,
                                particlesToUpdate, cur, target, brush, written,
                                moves, frameSteps>>
    /\ UNCHANGED <<isRunning, callVars, boot>>

\* faulty variant of collectDirty: every particle of the grid is visited
collectAll(G) == { <<G.data[index], G.particle[G.data[index]].y>> : index \in Cells(G) }

\* the particles of the dirty cells, in the order #stepPhysics will visit them:
\* shuffled, then sorted by the row they are in now
collectDirty(G) == { <<G.data[index], G.particle[G.data[index]].y>> : index \in G.dirty }

\* while (accumulator >= physicsInterval): up to the head of the for loop,
\* but for the call of renderer.queueParticles
whileHead ==
    /\ pc = "while"
    /\ accumulator >= PHYSICS_UPDATE_INTERVAL
    /\ particlesToUpdate' = collectDirty(World)
    /\ dirtyParticles' = {}
    /\ particlesProcessed' = {}
    /\ moves' = NoMoves(width * height)
    /\ cur' = NoParticle
    /\ target' = NoParticle
    /\ brush' = NoCall
    /\ written' = {}
    /\ pc' = "for"
    /\ UNCHANGED <<width, height, particle, data, isRunning, pendingFrames,
                   animationFrameId, lastFrameTime, accumulator, tickCount,
                   stepsTaken, now, frameSteps>>

\* the head of the while loop where the renderer is left out
LoopStep == whileHead /\ UNCHANGED <<callVars, boot>>

isNext(e) == \A o \in particlesToUpdate : e[2] <= o[2]

\* the switch on particle.category
handleParticle(G, h, key, t) ==
    CASE CategoryOf(G, h) = LIQUIDS -> handleLiquids(G, h, t)
      [] CategoryOf(G, h) = GASES -> handleGases(G, h, key, t)
      [] CategoryOf(G, h) = SANDS -> handleSands(G, h, t)
      [] OTHER -> [G |-> G, target |-> NoParticle]

directionsOf(G, h, key) ==
    CASE CategoryOf(G, h) = LIQUIDS -> LiquidDirections
      [] CategoryOf(G, h) = GASES -> GasDirections(key)
      [] CategoryOf(G, h) = SANDS -> SandDirections(G, h)
      [] OTHER -> <<>>

\* Math.floor(Math.random() * neighborKeys.length), drawn by #handleGases only
randomKeys(G, h) == IF CategoryOf(G, h) = GASES THEN 1..Len(ALL_NEIGHBORS) ELSE {1}

\* one iteration of the for loop of #stepPhysics
StepParticle ==
    /\ pc = "for"
    /\ particlesToUpdate # {}
    /\ \E e \in particlesToUpdate :
         /\ isNext(e)
         /\ particlesToUpdate' = particlesToUpdate \ {e}
         /\ cur' = e[1]
         /\ IF particle[e[1]].index \in particlesProcessed
            THEN /\ target' = NoParticle
                 /\ UNCHANGED gridVars
                 /\ UNCHANGED <<particlesProcessed, written, moves>>
            ELSE \E key \in randomKeys(World, e[1]) :
                 \E t \in tryTargets(World, e[1], directionsOf(World, e[1], key),
                                     CategoryOf(World, e[1]) = SANDS) :
                   LET res == handleParticle(World, e[1], key, t)
                   IN  /\ target' = res.target
                       /\ SetWorld(res.G)
    /\ UNCHANGED <<loopVars, pc, brush, frameSteps>>
    /\ UNCHANGED <<callVars, boot>>

\* the rest of the while body after the for loop: equalisation, the tick and
\* accumulator accounting and the substep cap
StepEnd ==
    /\ pc = "for"
    /\ particlesToUpdate = {}
    /\ SetWorld(simulateEqualisation(World, groupParticles(World, LIQUIDS)))
    /\ tickCount' = tickCount + 1
    /\ stepsTaken' = stepsTaken + 1
    /\ accumulator' = IF stepsTaken + 1 > MaxSubsteps
                      THEN 0 ELSE accumulator - PHYSICS_UPDATE_INTERVAL
    /\ frameSteps' = frameSteps + 1
    /\ cur' = NoParticle
    /\ target' = NoParticle
    /\ pc' = "while"
    /\ UNCHANGED <<isRunning, pendingFrames, animationFrameId, lastFrameTime, now,
                   particlesToUpdate, brush>>
    /\ UNCHANGED <<callVars, boot>>

\* the while loop ends: render and request the next frame
whileExit ==
    /\ pc = "while"
    /\ accumulator < PHYSICS_UPDATE_INTERVAL
    /\ pendingFrames' = pendingFrames + 1
    /\ animationFrameId' = TRUE
    /\ brush' = NoCall
    /\ written' = {}
    /\ moves' = NoMoves(width * height)
    /\ pc' = "idle"
    /\ UNCHANGED <<width, height, particle, data, dirtyParticles,
                   particlesProcessed, isRunning, lastFrameTime, accumulator,
                   tickCount, stepsTaken, now, particlesToUpdate, cur, target,
                   frameSteps>>

\* the end of the callback where the renderer is left out
LoopExit == whileExit /\ UNCHANGED <<callVars, boot>>

FrameDeltas == {PHYSICS_UPDATE_INTERVAL}

Next ==
    \/ Start({NoInput})
    \/ Frame(FrameDeltas, Inputs, MaxNow, "Grid")
    \/ LoopStep
    \/ StepParticle
    \/ StepEnd
    \/ LoopExit

Spec == Init /\ [][Next]_vars

\* the loop alone: started and stopped, frames arriving early, on time, or
\* after a long stall; nothing is painted
LoopDeltas == {EarlyDelta, PHYSICS_UPDATE_INTERVAL, (MaxSubsteps + 1) * PHYSICS_UPDATE_INTERVAL}

NextLoop ==
    \/ Start({NoInput})
    \/ StopInTime
    \/ Frame(LoopDeltas, {NoInput}, MaxNow, "Grid")
    \/ LoopStep
    \/ StepParticle
    \/ StepEnd
    \/ LoopExit

SpecLoop == InitSmall /\ [][NextLoop]_vars

\* the loop with start() and stop() called at any time between two callbacks
NextRestart ==
    \/ Start({NoInput})
    \/ Stop
    \/ Frame(LoopDeltas, {NoInput}, MaxNow, "Grid")
    \/ LoopStep
    \/ StepParticle
    \/ StepEnd
    \/ LoopExit

SpecRestart == InitSmall /\ [][NextRestart]_vars

\* the brush alone: frames that come too early for a physics step, the
\* pointer painting or erasing with brushes up to WideBrush, the fill served
\* by Grid.fillCircleAt or by the newer BogEngine.fillCircleAt
NextBrush ==
    \/ Start({NoInput})
    \/ Frame({EarlyDelta}, PointerStates(WideBrush), BrushNow, "Grid")
    \/ Frame({EarlyDelta}, PointerStates(WideBrush), BrushNow, "BogEngine")
    \/ LoopExit

SpecBrush == InitSmall /\ [][NextBrush]_vars

-----------------------------------------------------------------------------
(* groupParticles called on its own, on any grid of liquids *)

\* a grid of GroupW x GroupH cells holding the given element ids
InitLayout(w, h, layout) ==
    /\ width = w
    /\ height = h
    /\ particle = [k \in 0..(w * h - 1) |->
                     [id |-> layout[k], x |-> k % w, y |-> k \div w, index |-> k]]
    /\ data = [k \in 0..(w * h - 1) |-> k]
    /\ dirtyParticles = 0..(w * h - 1)
    /\ moves = NoMoves(w * h)
    /\ particlesProcessed = {}
    /\ isRunning = FALSE
    /\ pendingFrames = 0
    /\ animationFrameId = FALSE
    /\ lastFrameTime = Null
    /\ accumulator = 0
    /\ tickCount = 0
    /\ stepsTaken = 0
    /\ now = 0
    /\ pc = "idle"
    /\ particlesToUpdate = {}
    /\ cur = NoParticle
    /\ target = NoParticle
    /\ brush = NoCall
    /\ written = {}
    /\ frameSteps = 0
    /\ scan = NoScan
    /\ render = NoRender
    /\ fileText = NoFile
    /\ finalMapOut = NoMap
    /\ boot = "engine"

GroupIds == {EMPTY_PARTICLE_ID, WATER, OIL}

\* the widths of the blocks of BlockH rows that hold as many cells as the
\* filter's threshold, or just over it
BlockWidths ==
    {EqualisationThreshold \div BlockH, EqualisationThreshold \div BlockH + 1}

\* a rectangular block of water, w cells wide and BlockH high, under one row of EMPTY
BlockScene(w) ==
    [k \in 0..(w * (BlockH + 1) - 1) |->
        IF k \div w < BlockH THEN WATER ELSE EMPTY_PARTICLE_ID]

\* a pool one cell deep whose left half is topped by water up to BlockH rows,
\* under one row of EMPTY: every column is exposed
TerraceScene ==
    [k \in 0..(WideW * (BlockH + 1) - 1) |->
        IF k \div WideW = 0 THEN WATER
        ELSE IF k \div WideW < BlockH /\ k % WideW < WideW \div 2 THEN WATER
        ELSE EMPTY_PARTICLE_ID]

InitGroup ==
    \/ \E layout \in [0..(GroupW * GroupH - 1) -> GroupIds] :
           InitLayout(GroupW, GroupH, layout)
    \/ \E w \in BlockWidths : InitLayout(w, BlockH + 1, BlockScene(w))
    \/ InitLayout(WideW, BlockH + 1, TerraceScene)

\* engine.groupParticles(grid, 2): the scan, before the final filter
GroupCall ==
    /\ ~scan.done
    /\ \E S \in {scanGroups(World, LIQUIDS)} :
         scan' = [groups |-> S.groups, eq |-> S.eq, groupMap |-> S.groupMap,
                  done |-> TRUE, applied |-> FALSE]
    /\ UNCHANGED <<width, height, particle, data, dirtyParticles,
                   particlesProcessed, isRunning, pendingFrames, animationFrameId,
                   lastFrameTime, accumulator, tickCount, stepsTaken, now, pc,
                   particlesToUpdate, cur, target, brush, written, moves,
                   frameSteps, fileText, finalMapOut, boot, render>>

\* this.#simulateEqualisation(liquidGroup), on the groups the call returned
EqualiseCall ==
    /\ scan.done
    /\ ~scan.applied
    /\ scan' = [scan EXCEPT !.applied = TRUE]
    /\ SetWorld(simulateEqualisation(World, SelectSeq(scan.eq, passesThreshold)))
    /\ UNCHANGED <<isRunning, pendingFrames, animationFrameId, lastFrameTime,
                   accumulator, tickCount, stepsTaken, now, pc, particlesToUpdate,
                   cur, target, brush, frameSteps, fileText, finalMapOut, boot,
                   render>>

NextGroup == GroupCall \/ EqualiseCall

SpecGroup == InitGroup /\ [][NextGroup]_vars

-----------------------------------------------------------------------------
(* loadParticleData called on its own *)

\* before initialize() has built anything: there is no grid and no engine
NoEngine ==
    /\ width = 0
    /\ height = 0
    /\ particle = << >>
    /\ data = << >>
    /\ dirtyParticles = {}
    /\ moves = << >>
    /\ particlesProcessed = {}
    /\ isRunning = FALSE
    /\ pendingFrames = 0
    /\ animationFrameId = FALSE
    /\ lastFrameTime = Null
    /\ accumulator = 0
    /\ tickCount = 0
    /\ stepsTaken = 0
    /\ now = 0
    /\ pc = "idle"
    /\ particlesToUpdate = {}
    /\ cur = NoParticle
    /\ target = NoParticle
    /\ brush = NoCall
    /\ written = {}
    /\ frameSteps = 0
    /\ scan = NoScan
    /\ render = NoRender

\* the lines of a file, trimmed: a `[id]` header with the text between the
\* brackets, a `key: value` pair, or a line the loop skips (empty, comment)
Header(text) == [kind |-> "header", key |-> "", text |-> text]
Pair(key, text) == [kind |-> "pair", key |-> key, text |-> text]
Comment == [kind |-> "skip", key |-> "", text |-> << >>]

\* what may stand between the brackets of a header
HeaderTexts ==
    { <<"1", "0">>, <<"1", "1">>, <<"5">>, <<"0">>, <<"x">>, <<"1", "0", "x">> }

CoreLines(category, density) ==
    << Pair("name", <<"W">>), Comment, Pair("category", category),
       Pair("base_color", <<"#", "0", "0", "F">>),
       Pair("variant_color", <<"#", "0", "0", "E">>),
       Pair("is_movable", <<"t", "r", "u", "e">>),
       Pair("density", density) >>

\* the key lines of a block: complete liquids of two densities, a liquid
\* without its density line, a complete block of an unknown category, a
\* complete sand, and no line at all
Bodies ==
    { CoreLines(<<"2">>, <<"1">>),
      CoreLines(<<"2">>, <<"2">>),
      SubSeq(CoreLines(<<"2">>, <<"1">>), 1, 6),
      CoreLines(<<"7">>, <<"1">>),
      CoreLines(<<"4">>, <<"2">>) \o <<Pair("repose_angle", <<"4", "5">>)>>,
      << >> }

Blocks == { <<Header(h)>> \o body : h \in HeaderTexts, body \in Bodies }

RECURSIVE FilesOf(_)
\* the files of at most n blocks
FilesOf(n) ==
    IF n = 0 THEN { << >> }
    ELSE LET shorter == FilesOf(n - 1)
         IN  shorter \cup { f \o b : f \in shorter, b \in Blocks }

InitLoader ==
    /\ NoEngine
    /\ fileText \in FilesOf(MaxBlocks)
    /\ finalMapOut = NoMap
    /\ boot = "load"

\* loadParticleData(fileText) returns
LoadCall ==
    /\ ~finalMapOut.loaded
    /\ finalMapOut' = loadParticleData(fileText)
    /\ UNCHANGED <<width, height, particle, data, dirtyParticles,
                   particlesProcessed, isRunning, pendingFrames, animationFrameId,
                   lastFrameTime, accumulator, tickCount, stepsTaken, now, pc,
                   particlesToUpdate, cur, target, brush, written, moves,
                   frameSteps, scan, fileText, boot, render>>

NextLoader == LoadCall

SpecLoader == InitLoader /\ [][NextLoader]_vars

-----------------------------------------------------------------------------
(* initialize() of main.ts: load both files, build the engine, start it *)

\* how `await fetch(filePath)` and `response.text()` can end in getFileText
FetchOutcomes == {"ok", "status", "rejected"}

InitBoot ==
    /\ NoEngine
    /\ fileText = NoFile
    /\ finalMapOut = NoMap
    /\ boot = "load"

\* `await loadParticleData(...)`: getFileText returns the text and the map is
\* built, or getFileText throws and the exception leaves loadParticleData
LoadParticles ==
    /\ boot = "load"
    /\ \E r \in FetchOutcomes :
         IF r = "ok"
         THEN \E text \in FilesOf(1) :
                /\ fileText' = text
                /\ finalMapOut' = loadParticleData(text)
                /\ boot' = "settings"
         ELSE /\ boot' = "load_threw"
              /\ UNCHANGED <<fileText, finalMapOut>>
    /\ UNCHANGED <<width, height, particle, data, dirtyParticles,
                   particlesProcessed, isRunning, pendingFrames, animationFrameId,
                   lastFrameTime, accumulator, tickCount, stepsTaken, now, pc,
                   particlesToUpdate, cur, target, brush, written, moves,
                   frameSteps, scan, render>>

\* `await loadSettings(...)`: every missing value has a default, so only
\* getFileText can make it throw
LoadSettings ==
    /\ boot = "settings"
    /\ \E r \in FetchOutcomes :
         boot' = IF r = "ok" THEN "construct" ELSE "settings_threw"
    /\ UNCHANGED <<width, height, particle, data, dirtyParticles,
                   particlesProcessed, isRunning, pendingFrames, animationFrameId,
                   lastFrameTime, accumulator, tickCount, stepsTaken, now, pc,
                   particlesToUpdate, cur, target, brush, written, moves,
                   frameSteps, callVars>>

\* faulty variant of caught: the error is swallowed where it was thrown and
\* initialize goes on with its next statement
resumed(at) == IF at = "load_threw" THEN "settings" ELSE "construct"

\* where initialize is after an exception thrown at `at`: in its catch
\* block, which logs and returns
caught(at) == "failed"

\* `catch (error) { console.error(...) }`
Catch ==
    /\ boot \in {"load_threw", "settings_threw"}
    /\ boot' = caught(boot)
    /\ UNCHANGED <<width, height, particle, data, dirtyParticles,
                   particlesProcessed, isRunning, pendingFrames, animationFrameId,
                   lastFrameTime, accumulator, tickCount, stepsTaken, now, pc,
                   particlesToUpdate, cur, target, brush, written, moves,
                   frameSteps, callVars>>

\* new BoggedState, Renderer, InputManager, Debug and Engine
Construct ==
    /\ boot = "construct"
    /\ boot' = "engine"
    /\ width' = SmallW
    /\ height' = SmallH
    /\ particle' = [k \in 0..(SmallW * SmallH - 1) |->
                      [id |-> EMPTY_PARTICLE_ID, x |-> k % SmallW,
                       y |-> k \div SmallW, index |-> k]]
    /\ data' = [k \in 0..(SmallW * SmallH - 1) |-> k]
    /\ dirtyParticles' = 0..(SmallW * SmallH - 1)
    /\ moves' = NoMoves(SmallW * SmallH)
    /\ UNCHANGED <<particlesProcessed, isRunning, pendingFrames, animationFrameId,
                   lastFrameTime, accumulator, tickCount, stepsTaken, now, pc,
                   particlesToUpdate, cur, target, brush, written, frameSteps,
                   callVars>>

\* `engine.start()` is the last thing initialize does
StartOnce == boot = "engine" /\ Start({NoInput})

NextBoot ==
    \/ LoadParticles
    \/ LoadSettings
    \/ Catch
    \/ Construct
    \/ StartOnce
    \/ Frame(FrameDeltas, {NoInput}, MaxNow, "Grid")
    \/ LoopStep
    \/ StepParticle
    \/ StepEnd
    \/ LoopExit

SpecBoot == InitBoot /\ [][NextBoot]_vars

-----------------------------------------------------------------------------

(* one drop of water in an empty grid *)

\* the grid holds nothing but one Water particle in its top row
DropScene ==
    [k \in 0..(DropW * DropH - 1) |->
        IF k = (DropH - 1) * DropW + DropX THEN WATER ELSE EMPTY_PARTICLE_ID]

InitDrop == InitLayout(DropW, DropH, DropScene)

\* frames enough for the drop to reach the floor and be stepped there
DropNow == (DropH + 2) * PHYSICS_UPDATE_INTERVAL

NextDrop ==
    \/ Start({NoInput})
    \/ Frame(FrameDeltas, {NoInput}, DropNow, "Grid")
    \/ LoopStep
    \/ StepParticle
    \/ StepEnd
    \/ LoopExit

SpecDrop == InitDrop /\ [][NextDrop]_vars

-----------------------------------------------------------------------------

(* one grain of sand of any repose angle, on the floor, on a ledge or on a pile *)

SlabKinds == {"under", "wide", "pile"}

\* a grain of the sand of `angle` at (gx, gy); in the row below it a stone
\* under it, stone under it and under both its diagonals, or the same with
\* sand in place of stone (which falls freely when the row is not the floor)
SandScene(angle, gx, gy, slab) ==
    [k \in 0..(SandW * SandH - 1) |->
        LET x == k % SandW
            y == k \div SandW
        IN  IF x = gx /\ y = gy THEN SandOf(angle)
            ELSE IF y # gy - 1 THEN EMPTY_PARTICLE_ID
            ELSE IF slab = "under"
            THEN (IF x = gx THEN STONE ELSE EMPTY_PARTICLE_ID)
            ELSE IF x < gx - 1 \/ x > gx + 1 THEN EMPTY_PARTICLE_ID
            ELSE IF slab = "wide" THEN STONE ELSE SandOf(angle)]

InitSand ==
    \E angle \in SandAngles, gx \in {0, SandW \div 2, SandW - 1},
       gy \in {0, 1, SandH - 1}, slab \in SlabKinds :
        InitLayout(SandW, SandH, SandScene(angle, gx, gy, slab))

NextSand ==
    \/ Start({NoInput})
    \/ Frame(FrameDeltas, {NoInput}, MaxNow, "Grid")
    \/ LoopStep
    \/ StepParticle
    \/ StepEnd
    \/ LoopExit

SpecSand == InitSand /\ [][NextSand]_vars

-----------------------------------------------------------------------------

(* renderThisFrame called on its own, on a freshly built grid *)

\* colours the debug overlay can be given
OverlayChannels == {0, 1, 127, 227, 255}
OverlayAlphas == {0, 1, 127, 128, 180, 254, 255}
OverlayColors ==
    { <<c, c, 255 - c, a>> : c \in OverlayChannels, a \in OverlayAlphas }
      \cup {OutlineColor}

\* the overlay pixel queueParticles pushes for the cell (x, y)
overlayPixel(x, y, value, w, h) ==
    [index |-> flippedIndex(x, y, w, h), value |-> value, x |-> x, y |-> y]

\* the grid and engine as constructed; the renderer with the first step's
\* particles queued or nothing queued, one debug overlay pixel, the pointer
\* anywhere on or just off the grid with any brush size
InitRender ==
    /\ InitGrid(SmallW, SmallH)
    /\ particlesProcessed = {}
    /\ isRunning = FALSE
    /\ pendingFrames = 0
    /\ animationFrameId = FALSE
    /\ lastFrameTime = Null
    /\ accumulator = 0
    /\ tickCount = 0
    /\ stepsTaken = 0
    /\ now = 0
    /\ pc = "idle"
    /\ particlesToUpdate = {}
    /\ cur = NoParticle
    /\ target = NoParticle
    /\ brush = NoCall
    /\ written = {}
    /\ frameSteps = 0
    /\ scan = NoScan
    /\ fileText = NoFile
    /\ finalMapOut = NoMap
    /\ boot = "engine"
    /\ \E mx \in (0 - 1)..SmallW, my \in (0 - 1)..SmallH, size \in 0..WideBrush,
          queued \in {{}, 0..(SmallW * SmallH - 1)},
          corner \in {0, 1}, value \in OverlayColors :
         render = [NoRender EXCEPT
                     !.mouseX = mx, !.mouseY = my, !.currentBrushSize = size,
                     !.isBrushOutlineVisible = TRUE,
                     !.frameBuffer = [i \in 0..(SmallW * SmallH - 1) |-> Blank],
                     !.shown = [i \in 0..(SmallW * SmallH - 1) |-> Blank],
                     !.queuedParticles = queued,
                     !.queuedOverlayPixels =
                         <<overlayPixel(corner * (SmallW - 1), corner * (SmallH - 1),
                                        value, SmallW, SmallH)>>]

\* renderer.renderThisFrame()
RenderCall ==
    /\ ~render.done
    /\ render' = renderThisFrame(render, World)
    /\ UNCHANGED <<width, height, particle, data, dirtyParticles,
                   particlesProcessed, isRunning, pendingFrames, animationFrameId,
                   lastFrameTime, accumulator, tickCount, stepsTaken, now, pc,
                   particlesToUpdate, cur, target, brush, written, moves,
                   frameSteps, scan, fileText, finalMapOut, boot>>

NextRender == RenderCall

SpecRender == InitRender /\ [][NextRender]_vars

-----------------------------------------------------------------------------

(* one particle of the light gas in an empty grid *)

\* the grid holds nothing but one Gas particle at cell k
GasScene(k) ==
    [i \in 0..(SmallW * SmallH - 1) |-> IF i = k THEN GAS ELSE EMPTY_PARTICLE_ID]

InitGas == \E k \in 0..(SmallW * SmallH - 1) : InitLayout(SmallW, SmallH, GasScene(k))

SpecGas == InitGas /\ [][NextSand]_vars

-----------------------------------------------------------------------------

(* the brush holding an element the registry does not have *)

\* an id no blueprint entry exists for
MissingId == OIL + 1

\* the pointer paints Sand or the missing element anywhere on the grid
MissingInputs ==
    {NoInput} \cup
    { [mode |-> "paint", x |-> x, y |-> y, size |-> r, id |-> e] :
        x \in 0..(SmallW - 1), y \in 1..SmallH, r \in 0..MaxBrush,
        e \in {SAND, MissingId} }

NextMissing ==
    \/ Start({NoInput})
    \/ Frame(FrameDeltas, MissingInputs, MaxNow, "Grid")
    \/ LoopStep
    \/ StepParticle
    \/ StepEnd
    \/ LoopExit

SpecMissing == InitSmall /\ [][NextMissing]_vars

-----------------------------------------------------------------------------

(* The Engine of utils.ts on the Grid whose dirty set holds particle objects: *)
(* `dirtyParticles` is a set of handles here                                  *)

ObjectsNow == 50

\* the pointer paints Sand or erases in the middle column, one cell at a time
ObjectInputs ==
    {NoInput} \cup
    { [mode |-> m, x |-> 1, y |-> y, size |-> 0,
       id |-> IF m = "paint" THEN SAND ELSE EMPTY_PARTICLE_ID] :
        m \in {"paint", "erase"}, y \in 2..SmallH }

\* `Array.from(this.#currentGrid.dirtyParticles)`, the set cleared, and
\* #stepPhysics up to the head of its for loop
LoopStepObjects ==
    /\ pc = "while"
    /\ accumulator >= PHYSICS_UPDATE_INTERVAL
    /\ particlesToUpdate' = { <<h, particle[h].y>> : h \in dirtyParticles }
    /\ dirtyParticles' = {}
    /\ particlesProcessed' = {}
    /\ cur' = NoParticle
    /\ target' = NoParticle
    /\ brush' = NoCall
    /\ written' = {}
    /\ pc' = "for"
    /\ UNCHANGED <<width, height, particle, data, isRunning, pendingFrames,
                   animationFrameId, lastFrameTime, accumulator, tickCount,
                   stepsTaken, now, frameSteps, moves>>
    /\ UNCHANGED <<callVars, boot>>

\* one iteration of the for loop: only `case 4` has a handler
StepObject ==
    /\ pc = "for"
    /\ particlesToUpdate # {}
    /\ \E e \in particlesToUpdate :
         /\ isNext(e)
         /\ particlesToUpdate' = particlesToUpdate \ {e}
         /\ cur' = e[1]
         /\ IF \/ particle[e[1]].index \in particlesProcessed
               \/ CategoryOf(World, e[1]) # SANDS
            THEN /\ target' = NoParticle
                 /\ UNCHANGED gridVars
                 /\ UNCHANGED <<particlesProcessed, written, moves>>
            ELSE \E t \in tryTargets(World, e[1], SandDirections(World, e[1]), TRUE) :
                   LET res == handleSandObject(World, e[1], t)
                   IN  /\ target' = res.target
                       /\ SetWorld(res.G)
    /\ UNCHANGED <<loopVars, pc, brush, frameSteps>>
    /\ UNCHANGED <<callVars, boot>>

\* the rest of the while body: the tick and the accumulator
StepEndObjects ==
    /\ pc = "for"
    /\ particlesToUpdate = {}
    /\ tickCount' = tickCount + 1
    /\ accumulator' = accumulator - PHYSICS_UPDATE_INTERVAL
    /\ frameSteps' = frameSteps + 1
    /\ cur' = NoParticle
    /\ target' = NoParticle
    /\ pc' = "while"
    /\ UNCHANGED <<gridVars, particlesProcessed, written, moves, isRunning,
                   pendingFrames, animationFrameId, lastFrameTime, stepsTaken, now,
                   particlesToUpdate, brush>>
    /\ UNCHANGED <<callVars, boot>>

NextObjects ==
    \/ Start({NoInput})
    \/ Frame({EarlyDelta, PHYSICS_UPDATE_INTERVAL}, ObjectInputs, ObjectsNow, "Objects")
    \/ LoopStepObjects
    \/ StepObject
    \/ StepEndObjects
    \/ LoopExit

SpecObjects == InitSmall /\ [][NextObjects]_vars

-----------------------------------------------------------------------------

(* grids of sand and EMPTY left alone *)

\* frames enough for every grain of the small grid to reach its place and
\* for two more steps after that
SettleNow == (SmallH + 4) * PHYSICS_UPDATE_INTERVAL

\* any grid of EMPTY and one kind of sand: the 45 degree sand, which slides
\* one row at a time, or the 60 degree sand, whose slide drops two rows
InitSettle ==
    \E sand \in {SAND, SandOf(60)} :
      \E layout \in [0..(SmallW * SmallH - 1) -> {EMPTY_PARTICLE_ID, sand}] :
        InitLayout(SmallW, SmallH, layout)

NextSettle ==
    \/ Start({NoInput})
    \/ Frame(FrameDeltas, {NoInput}, SettleNow, "Grid")
    \/ LoopStep
    \/ StepParticle
    \/ StepEnd
    \/ LoopExit

SpecSettle == InitSettle /\ [][NextSettle]_vars

-----------------------------------------------------------------------------

(* the loop with its renderer: every step queues the particles it collected,  *)
(* every callback that reaches the end renders                                *)

\* the pointer paints Sand or Water or erases in the middle column, one cell
\* at a time
ShowInputs ==
    {NoInput} \cup
    { [mode |-> "paint", x |-> 1, y |-> y, size |-> 0, id |-> e] :
        y \in 1..SmallH, e \in {SAND, WATER} } \cup
    { [mode |-> "erase", x |-> 1, y |-> y, size |-> 0, id |-> EMPTY_PARTICLE_ID] :
        y \in 1..SmallH }

\* a frame comes too early for a step, in time for one, or in time for two
ShowDeltas == {EarlyDelta, PHYSICS_UPDATE_INTERVAL, 2 * PHYSICS_UPDATE_INTERVAL}

\* Engine and Renderer constructors: the frame buffer is all zero
InitShow ==
    /\ InitGrid(SmallW, SmallH)
    /\ particlesProcessed = {}
    /\ isRunning = FALSE
    /\ pendingFrames = 0
    /\ animationFrameId = FALSE
    /\ lastFrameTime = Null
    /\ accumulator = 0
    /\ tickCount = 0
    /\ stepsTaken = 0
    /\ now = 0
    /\ pc = "idle"
    /\ particlesToUpdate = {}
    /\ cur = NoParticle
    /\ target = NoParticle
    /\ brush = NoCall
    /\ written = {}
    /\ frameSteps = 0
    /\ scan = NoScan
    /\ fileText = NoFile
    /\ finalMapOut = NoMap
    /\ boot = "engine"
    /\ render = [NoRender EXCEPT
                   !.frameBuffer = [i \in 0..(SmallW * SmallH - 1) |-> Blank],
                   !.shown = [i \in 0..(SmallW * SmallH - 1) |-> Blank]]

\* the head of the while loop with `this.#renderer.queueParticles(particlesToUpdate)`
LoopStepQueue ==
    /\ whileHead
    /\ render' = [render EXCEPT !.queuedParticles = @ \cup { e[1] : e \in collectDirty(World) }]
    /\ UNCHANGED <<scan, fileText, finalMapOut, boot>>

\* the end of the callback with `this.#renderer.renderThisFrame()`
LoopExitRender ==
    /\ whileExit
    /\ render' = renderThisFrame(render, World)
    /\ UNCHANGED <<scan, fileText, finalMapOut, boot>>

NextShow ==
    \/ Start({NoInput})
    \/ Frame(ShowDeltas, ShowInputs, MaxNow, "Grid")
    \/ LoopStepQueue
    \/ StepParticle
    \/ StepEnd
    \/ LoopExitRender

SpecShow == InitShow /\ [][NextShow]_vars

-----------------------------------------------------------------------------

(* handleInput of the newer BogEngine called on its own: the pointer goes *)
(* from cell to cell of the grid, idle, painting sand or erasing           *)

StrokeNow == 3
StrokeModes == {"none", "paint", "erase"}

\* BogEngine.handleInput: the mouse cell of the last call becomes the
\* previous one, and a held button strokes from the new cell back to it
handleInput(mouseX, mouseY, mode, size) ==
    LET particleId == IF mode = "paint" THEN SAND ELSE EMPTY_PARTICLE_ID
        G == [World EXCEPT !.written = {}]
    IN  /\ brush' = [by |-> IF mode = "none" THEN "none" ELSE "BogEngine",
                     x |-> mouseX, y |-> mouseY, x2 |-> brush.x, y2 |-> brush.y,
                     radius |-> size, id |-> particleId, threw |-> FALSE]
        /\ SetWorld(IF mode = "none" THEN G
                    ELSE interFillCircleAt(G, mouseX, mouseY, brush.x, brush.y,
                                           size, particleId))

HandleInput ==
    /\ now < StrokeNow
    /\ now' = now + 1
    /\ \E mouseX \in 0..(SmallW - 1), mouseY \in 0..(SmallH - 1),
          mode \in StrokeModes, size \in 0..MaxBrush :
         handleInput(mouseX, mouseY, mode, size)
    /\ UNCHANGED <<isRunning, pendingFrames, animationFrameId, lastFrameTime,
                   accumulator, tickCount, stepsTaken, pc, particlesToUpdate, cur,
                   target, frameSteps, scan, fileText, finalMapOut, boot, render>>

NextStroke == HandleInput

SpecStroke == InitSmall /\ [][NextStroke]_vars

-----------------------------------------------------------------------------

(* Properties *)

idAt(i) == particle[data[i]].id
Layout == [i \in DOMAIN data |-> particle[data[i]].id]
LayoutOf(G) == [i \in DOMAIN G.data |-> G.particle[G.data[i]].id]
CountOf(e) == Cardinality({ i \in DOMAIN data : particle[data[i]].id = e })
densityOfId(e) == ParticleDataBlueprint(e).density
movableId(e) == ParticleDataBlueprint(e).isMovable

\* the in-bounds cells of the closed disc of fill call c
Footprint(c) ==
    { i \in DOMAIN data :
        LET dx == (i % width) - c.x
            dy == (i \div width) - c.y
        IN  dx * dx + dy * dy <= c.radius * c.radius }

\* a frame whose processInput made a fill call
FillStep == pc = "idle" /\ pc' = "while" /\ brush'.by # "none"
\* one iteration of the for loop of #stepPhysics
ParticleStep == pc = "for" /\ pc' = "for"

\* C1 (density law): whenever an iteration of the step loop changes the grid,
\* tryMoveParticle returned a target, that target occupied an in-bounds cell,
\* was movable and strictly less dense than the particle, and the change is
\* exactly the exchange of the two; when it returns nothing the grid is as it
\* was. Nothing but isMovable and the two densities decides.
DensityLaw ==
    [][ ParticleStep =>
          IF target' = NoParticle
          THEN data' = data /\ particle' = particle
          ELSE LET p == particle[cur']
                   t == particle[target']
               IN  /\ isInBounds(World, t.x, t.y)
                   /\ data[t.index] = target'
                   /\ data[p.index] = cur'
                   /\ movableId(t.id)
                   /\ densityOfId(p.id) > densityOfId(t.id)
                   /\ data' = [data EXCEPT ![p.index] = target', ![t.index] = cur']
      ]_vars

\* a sand particle has just sunk into the water below or beside it
DenserSankIntoLighter ==
    /\ pc = "for"
    /\ target # NoParticle
    /\ particle[cur].id = SAND
    /\ particle[target].id = WATER

\* C2 (index coherence): every flat index holds exactly one particle, whose
\* index field is that index and whose position is (index mod W, index div W).
IndexCoherence ==
    \A i \in DOMAIN data :
        /\ particle[data[i]].index = i
        /\ particle[data[i]].x = i % width
        /\ particle[data[i]].y = i \div width
        /\ \A j \in DOMAIN data : data[j] = data[i] => j = i

\* the first step of the basin after its lid was erased: nothing could fall,
\* and the equalisation pass has swapped the top of the column with an EMPTY
\* cell over the floor
EqualisationSwapped ==
    /\ width = WideW
    /\ pc = "while"
    /\ tickCount = 2
    /\ \E h \in DOMAIN moves :
          moves[h] = 1 /\ particle[h].id = WATER /\ particle[h].index # h

\* C3 (mass conservation): the iterations of a physics step and its
\* equalisation pass keep the number of cells of every element; the number of
\* EMPTY cells grows only in a frame that fills with id 0; a fill with another
\* id changes EMPTY cells only, and only into that id.
MassConservation ==
    [][ /\ pc = "for" => \A e \in ElementIds : CountOf(e)' = CountOf(e)
        /\ CountOf(EMPTY_PARTICLE_ID)' > CountOf(EMPTY_PARTICLE_ID)
             => FillStep /\ brush'.id = 0
        /\ (FillStep /\ brush'.id # 0)
             => \A i \in DOMAIN data :
                    idAt(i)' # idAt(i)
                      => idAt(i) = EMPTY_PARTICLE_ID /\ idAt(i)' = brush'.id
      ]_vars

\* a physics step of the small grid has just ended in which an element moved
StepMovedElements ==
    /\ width = SmallW
    /\ pc = "while"
    /\ frameSteps >= 1
    /\ \E h \in DOMAIN moves : moves[h] >= 1 /\ particle[h].id # EMPTY_PARTICLE_ID

\* C4 (no particle moves twice in one tick), as the specification states it:
\* no element takes part in more than one swap of the same physics step.
NoElementMovesTwice ==
    \A h \in DOMAIN moves : particle[h].id # EMPTY_PARTICLE_ID => moves[h] <= 1

\* C5 (substep cap), as the specification states it: one call of #gameLoop
\* runs at most MaxSubsteps physics steps.
SubstepCap == frameSteps <= MaxSubsteps

\* C6 (fixed-timestep accounting), as the specification states it: between
\* frames the accumulator is in [0, physics interval), whatever frames,
\* start() and stop() calls came before.
AccumulatorInRange ==
    pc = "idle" => 0 <= accumulator /\ accumulator < PHYSICS_UPDATE_INTERVAL

BrushFootprint ==
    [][ FillStep =>
          /\ written' \subseteq Footprint(brush')
          /\ \A i \in DOMAIN data \ Footprint(brush') :
                data'[i] = data[i] /\ particle'[data[i]] = particle[data[i]]
      ]_vars

\* BogEngine's brush, centred off the grid, has just erased part of its disc
\* and passed over an in-bounds cell of it: the flat index of an off-grid
\* offset had put that cell's index in the visited list
AliasedCellPassedOver ==
    /\ brush.by = "BogEngine"
    /\ brush.id = 0
    /\ ~isInBounds(World, brush.x, brush.y)
    /\ written # {}
    /\ \E i \in Footprint(brush) : i \notin written

\* C9 (erase is idempotent and undoes paint): after Grid.fillCircleAt erased a
\* disc, erasing the same disc again changes no cell's element; after it
\* painted a disc that was all EMPTY, erasing at the same centre with that
\* radius or a larger one leaves the erased disc EMPTY, and with that radius
\* gives back the layout from before the paint.
EraseLaws ==
    [][ (FillStep /\ brush'.by = "Grid") =>
          \A c \in {brush'} : \A after \in {World'} :
              /\ c.id = 0 =>
                   LayoutOf(fillCircleAt(after, c.x, c.y, c.radius, 0)) = LayoutOf(after)
              /\ (c.id # 0 /\ \A i \in Footprint(c) : idAt(i) = EMPTY_PARTICLE_ID) =>
                   \A r \in c.radius..WideBrush :
                   \A erased \in {LayoutOf(fillCircleAt(after, c.x, c.y, r, 0))} :
                       /\ \A i \in Footprint([c EXCEPT !.radius = r]) :
                             erased[i] = EMPTY_PARTICLE_ID
                       /\ r = c.radius => erased = Layout
      ]_vars

\* an erase has just cleared cells while an element painted earlier still
\* stands outside its disc
EraseAfterPaint ==
    /\ brush.by = "Grid"
    /\ brush.id = 0
    /\ written # {}
    /\ \E i \in DOMAIN data \ Footprint(brush) : idAt(i) # EMPTY_PARTICLE_ID

\* the tiers the specification gives a liquid: down, the two diagonals down,
\* the two sides
LiquidTiers ==
    << {<<0, 0 - 1>>}, {<<0 - 1, 0 - 1>>, <<1, 0 - 1>>}, {<<0 - 1, 0>>, <<1, 0>>} >>

\* offset d of particle fields p points at an in-bounds, movable, strictly
\* less dense cell
PointsAtLighter(p, d) ==
    /\ isInBounds(World, p.x + d[1], p.y + d[2])
    /\ LET o == particle[data[(p.y + d[2]) * width + p.x + d[1]]]
       IN  movableId(o.id) /\ densityOfId(p.id) > densityOfId(o.id)

\* C10 (tier priority, liquid): a liquid that the step loop hands to its
\* handler moves if and only if some offset of some tier points at an
\* in-bounds, movable, strictly less dense cell, and it lands on such a cell
\* of the first tier that has one.
TierPriority ==
    [][ (ParticleStep /\ particle[cur'].id = WATER
           /\ particle[cur'].index \notin particlesProcessed) =>
          LET p == particle[cur']
              q == particle'[cur']
              open(g) == { d \in LiquidTiers[g] : PointsAtLighter(p, d) }
              first == { g \in 1..Len(LiquidTiers) :
                           open(g) # {} /\ \A k \in 1..(g - 1) : open(k) = {} }
          IN  IF first = {}
              THEN q = p /\ target' = NoParticle
              ELSE /\ target' # NoParticle
                   /\ \E g \in first : <<q.x - p.x, q.y - p.y>> \in open(g)
      ]_vars

\* a liquid has just moved sideways: nothing below it or diagonally below it
\* could be displaced
LiquidMovedSideways ==
    /\ pc = "for"
    /\ target # NoParticle
    /\ particle[cur].id = WATER
    /\ particle[cur].y = particle[target].y

\* C11 (idle step): a physics step that starts with an empty dirty set visits
\* no particle, and when it ends (grouping and equalisation included) no
\* particle has been swapped, the grid is as it was and the dirty set is
\* still empty.
IdleStep ==
    [][ /\ (pc = "while" /\ pc' = "for" /\ dirtyParticles = {})
             => particlesToUpdate' = {}
        /\ (pc = "for" /\ pc' = "while" /\ cur = NoParticle)
             => /\ data' = data
                /\ particle' = particle
                /\ dirtyParticles' = {}
                /\ \A h \in DOMAIN moves' : moves'[h] = 0
      ]_vars

\* a step that began with nothing dirty has reached its grouping pass over a
\* grid that holds a body of liquid
IdleStepOverLiquid ==
    /\ pc = "for"
    /\ cur = NoParticle
    /\ particlesToUpdate = {}
    /\ Len(scanGroups(World, LIQUIDS).eq) > 0

\* the cells that hold a liquid
LiquidCells == { i \in DOMAIN data : ParticleDataBlueprint(idAt(i)).category = LIQUIDS }

\* cells a and b are side by side or one above the other
Adjacent4(a, b) ==
    \/ (a \div width = b \div width /\ (a - b = 1 \/ b - a = 1))
    \/ (a - b = width \/ b - a = width)

RECURSIVE grownFrom(_)
\* the cells joined to the set by a path of 4-adjacent cells of one element
grownFrom(cells) ==
    LET more == { b \in LiquidCells :
                    \E a \in cells : Adjacent4(a, b) /\ idAt(a) = idAt(b) }
    IN  IF more \subseteq cells THEN cells ELSE grownFrom(cells \cup more)

\* the liquid the scan pushed to payload g
payloadCells(g) ==
    { particle[scan.eq[g].liquidParticle[k]].index :
        k \in 1..Len(scan.eq[g].liquidParticle) }

\* C12 (grouping yields connected components): after one scan, two liquid
\* cells of one element joined by a path of 4-adjacent cells of that element
\* have the same group_of value, and those of them the scan pushed to a
\* payload are in the same payload; cells of different elements never share
\* a group.
GroupsAreComponents ==
    (scan.done /\ ~scan.applied) =>
      \A a \in LiquidCells :
        /\ \A b \in grownFrom({a}) :
             /\ scan.groupMap[a] = scan.groupMap[b]
             /\ \A g \in 1..Len(scan.eq) :
                  \A h \in 1..Len(scan.eq) :
                    (a \in payloadCells(g) /\ b \in payloadCells(h)) => g = h
        /\ \A b \in LiquidCells :
             idAt(a) # idAt(b) => scan.groupMap[a] # scan.groupMap[b]

\* the filter of groupParticles keeps the payload that holds cells of a's puddle
consideredAt(a) ==
    \E g \in 1..Len(scan.eq) :
        /\ passesThreshold(scan.eq[g])
        /\ grownFrom({a}) \cap payloadCells(g) # {}

\* C13 (equalisation threshold): after one grouping pass a puddle is kept by
\* the filter exactly when it has more than 30 liquid cells: a block of
\* 11 x 3 water cells under EMPTY is kept, one of 10 x 3 is not.
ThresholdByCells ==
    (scan.done /\ ~scan.applied) =>
      \A a \in LiquidCells :
        consideredAt(a) <=> Cardinality(grownFrom({a})) > EqualisationThreshold

\* the swaps the equalisation pass made for payload g
swapsOf(g) ==
    Cardinality({ k \in 1..Len(scan.eq[g].liquidParticle) :
                    moves[scan.eq[g].liquidParticle[k]] > 0 })

\* C14 (equalisation bandwidth): for every group the pass equalises, with
\* L = min(|liquids|, |empties|), it makes at most floor(L / 4) swaps.
EqualisationBandwidth ==
    scan.applied =>
      \A g \in 1..Len(scan.eq) :
        passesThreshold(scan.eq[g]) =>
          swapsOf(g) <= Min2(Len(scan.eq[g].liquidParticle),
                             Len(scan.eq[g].emptyParticle)) \div 4

\* the header lines of the file, and the key lines of the block a header opens
headerLines == { i \in 1..Len(fileText) : fileText[i].kind = "header" }
bodyOf(i) ==
    { j \in (i + 1)..Len(fileText) :
        fileText[j].kind = "pair" /\ \A h \in headerLines : ~(i < h /\ h < j) }

\* the text between the brackets is a decimal number
isNumeral(text) == Len(text) > 0 /\ \A k \in 1..Len(text) : isDigit(text[k])
numeralOf(text) == readDigits(text, 1, 0, 0).n

\* block i has a number of 10 or more as its id, one that no earlier block has
opensEntry(i) ==
    /\ isNumeral(fileText[i].text)
    /\ numeralOf(fileText[i].text) >= FirstUserId
    /\ \A h \in headerLines :
         (h < i /\ isNumeral(fileText[h].text))
           => numeralOf(fileText[h].text) # numeralOf(fileText[i].text)

\* block i has every required field and a category the engine knows
wellFormed(i) ==
    /\ \A key \in {"name", "category", "base_color", "variant_color",
                   "is_movable", "density"} :
         \E j \in bodyOf(i) : fileText[j].key = key
    /\ \E j \in bodyOf(i) :
         /\ fileText[j].key = "category"
         /\ isNumeral(fileText[j].text)
         /\ numeralOf(fileText[j].text) \in SOLIDS..ELECTRONICS

\* C15 (loader discards bad blocks one by one): the load returns a registry;
\* apart from id 0 it holds exactly the ids of the blocks whose header is a
\* number of 10 or more not seen before and whose fields are complete, each
\* with the density its own block gives; a block with a header that is not a
\* number, is below 10 or repeats an id adds and changes nothing.
LoaderDiscards ==
    finalMapOut.loaded =>
      /\ DOMAIN finalMapOut.map \ {EMPTY_PARTICLE_ID} =
           { numeralOf(fileText[i].text) :
               i \in { i \in headerLines : opensEntry(i) /\ wellFormed(i) } }
      /\ \A i \in headerLines :
           (opensEntry(i) /\ wellFormed(i)) =>
             \A j \in bodyOf(i) :
               fileText[j].key = "density" =>
                 finalMapOut.map[numeralOf(fileText[i].text)].density
                   = Num(numeralOf(fileText[j].text))


\* C16 (reserved ids): whatever the file, the registry the loader returns maps
\* id 0 to the hardcoded EMPTY element (Technical, movable, density 0), also
\* when the file has a block [0], and it has no entry for an id in 1..9.
ReservedIds ==
    finalMapOut.loaded =>
      /\ EMPTY_PARTICLE_ID \in DOMAIN finalMapOut.map
      /\ finalMapOut.map[EMPTY_PARTICLE_ID].id = EMPTY_PARTICLE_ID
      /\ finalMapOut.map[EMPTY_PARTICLE_ID].name = <<"E", "m", "p", "t", "y">>
      /\ finalMapOut.map[EMPTY_PARTICLE_ID].category = TECHNICAL
      /\ finalMapOut.map[EMPTY_PARTICLE_ID].isMovable
      /\ finalMapOut.map[EMPTY_PARTICLE_ID].density = Num(0)
      /\ \A id \in 1..(FirstUserId - 1) : id \notin DOMAIN finalMapOut.map

\* a loaded file with a complete block [0] and a complete block [5]
ReservedBlocksLoaded ==
    /\ finalMapOut.loaded
    /\ \E i \in headerLines : fileText[i].text = <<"0">> /\ wellFormed(i)
    /\ \E i \in headerLines : fileText[i].text = <<"5">> /\ wellFormed(i)

\* initialize has built nothing and started nothing
nothingRuns ==
    /\ width = 0 /\ height = 0 /\ DOMAIN data = {}
    /\ ~isRunning
    /\ pendingFrames = 0
    /\ tickCount = 0
    /\ pc = "idle"

\* C17 (load failure is fatal before start): once fetching or reading either
\* data file has failed, initialize stops in its catch block and stays there;
\* no engine is constructed, start() is not called, no physics step and no
\* frame ever runs.
LoadFailureFatal ==
    [][ /\ boot \in {"load_threw", "settings_threw", "failed"}
          => boot' = "failed" /\ nothingRuns /\ nothingRuns'
        /\ boot' \in {"load_threw", "settings_threw"} => nothingRuns' ]_vars

\* the elements file was loaded, the settings file could not be read
SettingsFailedAfterLoad == boot = "failed" /\ finalMapOut.loaded

\* C18 (start/stop): at most one frame callback is pending at any time; while
\* the engine is stopped none is pending and the loop is not inside a frame,
\* and from a stopped state to a stopped state no physics step runs and the
\* grid is not touched; start() on a running engine changes nothing.
StartStopDiscipline ==
    [][ /\ pendingFrames' <= 1
        /\ ~isRunning' => pendingFrames' = 0 /\ pc' = "idle"
        /\ (~isRunning /\ ~isRunning')
             => /\ tickCount' = tickCount
                /\ particle' = particle /\ data' = data
                /\ dirtyParticles' = dirtyParticles ]_vars

\* stop() was called after the engine had run physics steps
StoppedAfterSteps ==
    /\ ~isRunning
    /\ tickCount > 0
    /\ boot = "started"
    /\ pendingFrames = 0

theDrop == CHOOSE h \in DOMAIN particle : particle[h].id = WATER
dropX == particle[theDrop].x
dropY == particle[theDrop].y

\* C19 (single falling drop): the water's y never increases, and once the
\* water is in the floor cell under its starting cell it rests there.
SingleDropRests ==
    [][ /\ dropY' <= dropY
        /\ (dropX = DropX /\ dropY = 0) => (dropX' = DropX /\ dropY' = 0) ]_vars

\* C20 (sand stays in the grid and only falls): after every move each
\* particle is at in-bounds coordinates, in the slot the array holds it in,
\* and a sand that moved on its own turn is strictly lower than it was,
\* whatever its repose angle and whatever the bump coin gave.
SandOnlyFalls ==
    [][ /\ particle' # particle =>
             \A h \in DOMAIN particle' :
               /\ particle'[h].x \in 0..(width' - 1)
               /\ particle'[h].y \in 0..(height' - 1)
               /\ particle'[h].index = particle'[h].y * width' + particle'[h].x
               /\ data'[particle'[h].index] = h
        /\ (/\ pc = "for" /\ cur' # NoParticle /\ target' # NoParticle
            /\ CategoryOf(World, cur') = SANDS)
             => particle'[cur'].y < particle[cur'].y ]_vars

\* a sand of a steep angle has just dropped several rows in one move
SandLeapt ==
    /\ pc = "for"
    /\ cur # NoParticle
    /\ target # NoParticle
    /\ CategoryOf(World, cur) = SANDS
    /\ particle[target].y - particle[cur].y > 1
    /\ particle[target].x # particle[cur].x

\* C21 (pixel addressing): every pixel index the renderer writes or blends is
\* inside the frame buffer and is (H-1-y)*W + x for the in-bounds cell (x, y)
\* it stands for, for queued particles and for every brush outline pixel.
PixelAddressing ==
    render.done =>
      /\ \A p \in render.painted :
           /\ p.index \in 0..(width * height - 1)
           /\ p.index = (height - 1 - p.y) * width + p.x
      /\ \A k \in 1..Len(render.handed) :
           LET p == render.handed[k]
           IN  /\ p.x \in 0..(width - 1) /\ p.y \in 0..(height - 1)
               /\ p.index \in 0..(width * height - 1)
               /\ p.index = (height - 1 - p.y) * width + p.x

\* c is the integer nearest to n / 255
nearest(c, n) == 2 * 255 * c - 255 <= 2 * n /\ 2 * n < 2 * 255 * c + 255

\* every blend the last frame made is source-over on integers
sourceOver ==
    \A k \in 1..Len(render.blends) :
      LET b == render.blends[k]
      IN  /\ \A ch \in 1..3 :
               nearest(b.out[ch], b.src[ch] * b.src[4] + b.dst[ch] * (255 - b.src[4]))
          /\ b.out[4] = Min2(b.dst[4], b.src[4])

\* C22 (source-over blend on integers): each colour channel of a blended
\* pixel is round((src*a + dst*(255-a))/255) and its alpha is
\* min(dst.a, src.a); (227,227,227,180) over (14,14,17,255) gives
\* (164,164,165,180).
BlendLaw ==
    render.done =>
      /\ sourceOver
      /\ \A k \in 1..Len(render.blends) :
           (render.blends[k].src = OutlineColor /\ render.blends[k].dst = EmptyColor)
             => render.blends[k].out = <<164, 164, 165, 180>>

\* the outline colour was blended over a pixel showing EMPTY, and another
\* overlay colour over some pixel
OutlineOverEmpty ==
    /\ render.done
    /\ \E k \in 1..Len(render.blends) :
         render.blends[k].src = OutlineColor /\ render.blends[k].dst = EmptyColor
    /\ \E k \in 1..Len(render.blends) :
         render.blends[k].src # OutlineColor /\ render.blends[k].src[4] = 127

\* C22 as stated: the same, with (227,227,227,180) over (14,14,17,255) giving
\* a pixel within 1 of (163,163,163) in each colour channel and alpha 180.
BlendNear163 ==
    render.done =>
      /\ sourceOver
      /\ \A k \in 1..Len(render.blends) :
           (render.blends[k].src = OutlineColor /\ render.blends[k].dst = EmptyColor)
             => /\ \A ch \in 1..3 : render.blends[k].out[ch] \in 162..164
                /\ render.blends[k].out[4] = 180

\* the cells a step changed: those createParticleAt rebuilt (only a frame's
\* processInput does that) and those whose particle was exchanged
createdNow == IF pc = "idle" THEN written' ELSE {}
swappedNow == { i \in DOMAIN data : data'[i] # data[i] }
changedNow == createdNow \cup swappedNow

\* the cells of S and their existing 8 neighbours
around(S) ==
    { i \in DOMAIN data :
        \E j \in S : /\ (i % width) - (j % width) \in (0 - 1)..1
                     /\ (i \div width) - (j \div width) \in (0 - 1)..1 }

\* the step is the clear at the head of a physics step
clearsDirty == pc = "while" /\ pc' = "for"

\* C23 (dirty set between two clears): a clear empties the set; every other
\* step adds to it each cell it created or swapped, and adds nothing but
\* those cells and their 8 neighbours.
DirtySinceClear ==
    [][ IF clearsDirty THEN dirtyParticles' = {}
        ELSE /\ dirtyParticles \cup changedNow \subseteq dirtyParticles'
             /\ dirtyParticles' \subseteq dirtyParticles \cup around(changedNow) ]_vars

\* a swap has made dirty a cell that took no part in it
NeighbourMadeDirty ==
    /\ pc = "for"
    /\ cur # NoParticle
    /\ target # NoParticle
    /\ dirtyParticles \ {particle[cur].index, particle[target].index} # {}

\* C23 as stated: between two clears the dirty set holds exactly the cells
\* created or swapped since the last clear, no index more and no index less.
DirtyExact ==
    [][ IF clearsDirty THEN dirtyParticles' = {}
        ELSE dirtyParticles' = dirtyParticles \cup changedNow ]_vars

\* C24 (dirty set covers every change and its neighbourhood): a step that
\* creates or swaps cells leaves each of them and each of their existing 8
\* neighbours in the dirty set and drops nothing from it, and the clear at
\* the head of a physics step hands the step the particle of every dirty
\* cell; so every cell changed since the previous step began is in the set
\* the step starts from.
DirtyCoversNeighbourhood ==
    [][ IF clearsDirty
        THEN \A i \in dirtyParticles :
               \E e \in particlesToUpdate' : e[1] = data[i]
        ELSE dirtyParticles \cup around(changedNow) \subseteq dirtyParticles' ]_vars

\* after an earlier step had cleared the set, a frame has just painted or
\* erased cells that have neighbours
PaintMadeDirty ==
    /\ pc = "while"
    /\ tickCount > 0
    /\ dirtyParticles # DOMAIN data
    /\ written # {}
    /\ around(written) \subseteq dirtyParticles
    /\ around(written) # written

\* C25 (a step consumes the previous dirty set): the head of a physics step
\* lists exactly the particles at the indices that are dirty at that moment
\* and empties the set; the loop dispatches only particles of that list,
\* which never grows; an index that becomes dirty later stays dirty until
\* the head of the next step, which lists its particle.
StepConsumesDirty ==
    [][ /\ clearsDirty
          => /\ { e[1] : e \in particlesToUpdate' } = { data[i] : i \in dirtyParticles }
             /\ dirtyParticles' = {}
        /\ (pc = "for" /\ pc' = "for")
          => \E e \in particlesToUpdate :
               /\ e[1] = cur'
               /\ particlesToUpdate' = particlesToUpdate \ {e}
        /\ ~clearsDirty => dirtyParticles \subseteq dirtyParticles' ]_vars

\* the head of a later step has just listed the cells the steps and frames
\* before it left dirty, which are not the whole grid
LaterStepListed ==
    /\ pc = "for"
    /\ tickCount > 0
    /\ cur = NoParticle
    /\ dirtyParticles = {}
    /\ particlesToUpdate # {}
    /\ \E i \in DOMAIN data : \A e \in particlesToUpdate : e[1] # data[i]

\* C26 (visited at most once): the list of a physics step names each
\* particle once and a dispatched particle leaves the list, so no particle
\* has a second turn; a particle that took part in a swap earlier in the
\* step sits at an index of the processed set, and when its turn comes it is
\* skipped: no handler runs and nothing moves.
VisitedAtMostOnce ==
    [][ /\ clearsDirty
          => \A e1, e2 \in particlesToUpdate' : e1[1] = e2[1] => e1 = e2
        /\ (pc = "for" /\ pc' = "for")
          => /\ \A e \in particlesToUpdate' : e[1] # cur'
             /\ particlesToUpdate' \subseteq particlesToUpdate
             /\ moves[cur'] >= 1
                  => /\ particle[cur'].index \in particlesProcessed
                     /\ target' = NoParticle
                     /\ particle' = particle /\ data' = data
                     /\ moves' = moves ]_vars

\* the particle whose turn just came had been swapped earlier in the step
\* and was skipped
SwappedThenSkipped ==
    /\ pc = "for"
    /\ cur # NoParticle
    /\ target = NoParticle
    /\ moves[cur] >= 1
    /\ particle[cur].id # EMPTY_PARTICLE_ID

passive(h) == CategoryOf(World, h) \in {SOLIDS, ELECTRONICS, TECHNICAL}

\* C27 (passive categories): a Solid, Electronic or Technical particle
\* (EMPTY included) whose turn comes makes no move; its fields change only
\* when a frame's fill overwrites its cell or when it changes places with a
\* strictly denser particle while being movable itself; a particle that is
\* not movable changes only by being overwritten.
PassiveCategories ==
    [][ /\ (pc = "for" /\ pc' = "for" /\ passive(cur'))
          => target' = NoParticle /\ particle' = particle /\ data' = data
        /\ \A h \in DOMAIN particle :
             (passive(h) /\ particle'[h] # particle[h])
               => \/ /\ pc = "idle"
                     /\ particle[h].index \in written'
                     /\ particle'[h].index = particle[h].index
                  \/ /\ MovableOf(World, h)
                     /\ \E g \in DOMAIN particle :
                          /\ particle'[h].index = particle[g].index
                          /\ particle'[g].index = particle[h].index
                          /\ particle'[g].id = particle[g].id
                          /\ DensityOf(World, g) > DensityOf(World, h) ]_vars

\* a stone has had its turn in a step while a cell next to it is EMPTY
StoneHadItsTurn ==
    /\ pc = "for"
    /\ cur # NoParticle
    /\ particle[cur].id = STONE
    /\ \E t \in DOMAIN particle :
         /\ particle[t].id = EMPTY_PARTICLE_ID
         /\ particle[t].x = particle[cur].x
         /\ particle[t].y = particle[cur].y - 1

theGas == CHOOSE h \in DOMAIN particle : particle[h].id = GAS

\* C28 (light gas rises): a gas lighter than EMPTY, alone in an EMPTY grid
\* with a row above it, can be raised: for some random direction its handler
\* swaps it with a particle that is higher than it.
LightGasCanRise ==
    particle[theGas].y < height - 1 =>
      \E key \in randomKeys(World, theGas) :
        \E t \in tryTargets(World, theGas, directionsOf(World, theGas, key), FALSE) :
          t # NoParticle /\ particle[t].y > particle[theGas].y

\* the step is the turn of a Sand particle that #handleSands is called for
sandTurn ==
    /\ pc = "for" /\ pc' = "for"
    /\ CategoryOf(World, cur') = SANDS
    /\ particle[cur'].index \notin particlesProcessed

\* the offsets of every tier of the direction groups of Sand particle h
sandOffsets(h) ==
    UNION { { SandDirections(World, h)[g][k] : k \in 1..Len(SandDirections(World, h)[g]) } :
            g \in 1..Len(SandDirections(World, h)) }

\* the particles h can change places with at (dx, dy) from its cell: in
\* bounds, movable and strictly less dense
reachableAt(h, dx, dy) ==
    { t \in DOMAIN particle :
        /\ particle[t].x = particle[h].x + dx
        /\ particle[t].y = particle[h].y + dy
        /\ data[particle[t].index] = t
        /\ MovableOf(World, t)
        /\ DensityOf(World, h) > DensityOf(World, t) }

\* C29 as stated (try_move with bump_x fails only when nothing is reachable):
\* when the turn of a Sand particle ends with try_move returning none, no
\* offset of its direction groups points at an in-bounds, movable, strictly
\* less dense cell.
BumpFailsOnlyWhenStuck ==
    [][ (sandTurn /\ target' = NoParticle)
          => \A d \in sandOffsets(cur') : reachableAt(cur', d.dx, d.dy) = {} ]_vars

\* C29 (amended): with bump_x the candidate of an offset is the cell at the
\* offset or at its mirror image in x, as the coin falls. try_move can return
\* none exactly when every offset of every tier has, at itself or at its
\* mirror image, a cell that is not in bounds, movable and strictly less
\* dense; a returned target is such a cell at an offset or its mirror image,
\* and the particle has changed places with it.
BumpMissesMirrored ==
    [][ sandTurn =>
          /\ (NoParticle \in tryTargets(World, cur', SandDirections(World, cur'), TRUE))
               <=> (\A d \in sandOffsets(cur') :
                      \/ reachableAt(cur', d.dx, d.dy) = {}
                      \/ reachableAt(cur', d.dx * (-1), d.dy) = {})
          /\ target' # NoParticle
               => /\ \E d \in sandOffsets(cur') :
                       target' \in reachableAt(cur', d.dx, d.dy)
                                     \cup reachableAt(cur', d.dx * (-1), d.dy)
                  /\ particle'[cur'].index = particle[target'].index
                  /\ particle'[target'].index = particle[cur'].index ]_vars

\* a Sand particle had its turn and stayed although one of its offsets
\* pointed at a cell it could have moved to
MirroredMiss ==
    /\ pc = "for"
    /\ cur # NoParticle
    /\ CategoryOf(World, cur) = SANDS
    /\ target = NoParticle
    /\ particle[cur].index \notin particlesProcessed
    /\ moves[cur] = 0
    /\ \E d \in sandOffsets(cur) : reachableAt(cur, d.dx, d.dy) # {}

\* the step is the equalisation pass over the groups the scan returned
equalises == scan.done /\ ~scan.applied /\ scan'.applied

\* the pass exchanged liquid l with particle e, once, lowering l
loweredInto(l, e) ==
    /\ CategoryOf(World, l) = LIQUIDS
    /\ particle[e].id = EMPTY_PARTICLE_ID
    /\ particle[l].y > particle[e].y
    /\ particle'[l] = [particle[e] EXCEPT !.id = particle[l].id]
    /\ particle'[e] = [particle[l] EXCEPT !.id = particle[e].id]
    /\ data'[particle[e].index] = l
    /\ data'[particle[l].index] = e
    /\ moves'[l] = moves[l] + 1
    /\ moves'[e] = moves[e] + 1
    /\ {particle[l].index, particle[e].index} \subseteq dirtyParticles'
    /\ {particle[l].index, particle[e].index} \subseteq particlesProcessed'

MissingElementIsNoOp ==
    /\ ~brush.threw
    /\ \A idx \in DOMAIN data :
         /\ particle[data[idx]].id \in ElementIds \cup SandIds
         /\ particle[data[idx]].index = idx

\* particle h is the one the grid holds at the cell its index names
occupant(h) == data[particle[h].index] = h

\* C32 (only grid occupants are simulated): every particle a physics step
\* has collected, and the one it is dispatching, is the occupant of its cell,
\* and a particle that is no longer in the grid never comes back into it.
OnlyOccupantsSimulated ==
    [][ /\ \A e \in particlesToUpdate' : data'[particle'[e[1]].index] = e[1]
        /\ \A h \in DOMAIN particle :
             ~occupant(h) => data'[particle'[h].index] # h ]_vars

\* a physics step has just ended and left nothing in the dirty set
stepEndedClean == pc = "while" /\ frameSteps > 0 /\ dirtyParticles = {}

\* Sand particle h has a movable, strictly less dense particle right below it
hangs(h) ==
    /\ CategoryOf(World, h) = SANDS
    /\ getParticleAt(World, particle[h].x, particle[h].y - 1) # NoParticle
    /\ canSwap(World, h, getParticleAt(World, particle[h].x, particle[h].y - 1))

\* C33 (no sand left hanging at rest): when a physics step ends with an empty
\* dirty set, no Sand particle has a movable, strictly less dense particle
\* directly below it.
NoSandLeftHanging ==
    stepEndedClean => \A h \in DOMAIN particle : ~hangs(h)

\* a step ended with an empty dirty set while a Sand particle rests above
\* the floor row, on a particle it cannot sink into
SandRestsOnSomething ==
    /\ stepEndedClean
    /\ \E h \in DOMAIN particle :
         /\ CategoryOf(World, h) = SANDS
         /\ particle[h].y > 0

RECURSIVE weightedHeight(_, _)
\* the sum of density * y over the particles with handles in S
weightedHeight(part, S) ==
    IF S = {} THEN 0
    ELSE LET h == CHOOSE h \in S : TRUE
         IN  ParticleDataBlueprint(part[h].id).density * part[h].y
               + weightedHeight(part, S \ {h})

\* nothing is dirty and nothing is waiting for its turn
settled == dirtyParticles = {} /\ particlesToUpdate = {}

\* C34 (sand settles): in a grid of sand and EMPTY that is not painted on,
\* every change of the grid strictly lowers the sum of density * y, which is
\* never negative, so only finitely many swaps happen; a step in which no
\* particle moved ends with an empty dirty set; and once a step has ended
\* with an empty dirty set the grid and the dirty set never change again.
SandSettles ==
    [][ /\ (particle' # particle \/ data' # data)
             => /\ weightedHeight(particle', DOMAIN particle')
                     < weightedHeight(particle, DOMAIN particle)
                /\ weightedHeight(particle', DOMAIN particle') >= 0
        /\ (pc = "for" /\ pc' = "while" /\ \A h \in DOMAIN moves : moves[h] = 0)
             => dirtyParticles' = {}
        /\ settled => (settled' /\ particle' = particle /\ data' = data) ]_vars

\* a grain has fallen, and a later step has ended with an empty dirty set
SandHasSettled ==
    /\ pc = "while"
    /\ frameSteps > 0
    /\ settled
    /\ tickCount >= 3
    /\ \E h \in DOMAIN particle : CategoryOf(World, h) = SANDS /\ h # particle[h].index

\* the callback has rendered and waits for the next frame
rendered == pc = "idle" /\ render.done

\* the colour of the particle the grid holds at (x, y)
colourAt(x, y) == ColorOf(particle[data[y * width + x]].id)

\* C35 (frame buffer catches up with the grid): after a frame whose last
\* physics step left the dirty set empty, the frame-buffer pixel at
\* (H-1-y)*W + x holds the colour of the particle at (x, y), for every cell;
\* and after every frame each pixel the particle pass wrote is at the flipped
\* index of a cell and holds the colour of that cell's particle.
FrameBufferCatchesUp ==
    rendered =>
      /\ (frameSteps > 0 /\ dirtyParticles = {}) =>
           \A x \in 0..(width - 1), y \in 0..(height - 1) :
             render.frameBuffer[(height - 1 - y) * width + x] = colourAt(x, y)
      /\ \A p \in render.painted :
           /\ p.index = (height - 1 - p.y) * width + p.x
           /\ isInBounds(World, p.x, p.y)
           /\ render.frameBuffer[p.index] = colourAt(p.x, p.y)

\* a frame whose last step left nothing dirty has rendered a grid in which a
\* grain of sand lies where it was not painted
ShowsFallenSand ==
    /\ rendered
    /\ frameSteps > 0
    /\ dirtyParticles = {}
    /\ \E h \in DOMAIN particle :
         /\ particle[h].id = SAND
         /\ moves[h] = 0
         /\ h # particle[h].index
         /\ render.frameBuffer[(height - 1 - particle[h].y) * width + particle[h].x]
              = ColorOf(SAND)

\* C36 (stopped time is not simulated): a start() of a stopped engine leaves
\* the accumulator as it was, at a value in [0, physics interval), so the
\* time the engine was stopped is not simulated and the call runs no step.
StoppedTimeNotSimulated ==
    [][ (~isRunning /\ isRunning')
          => /\ accumulator' = accumulator
             /\ accumulator' >= 0
             /\ accumulator' < PHYSICS_UPDATE_INTERVAL ]_vars

\* the particles of the two lists of payload g
liquidsOf(g) == { scan.eq[g].liquidParticle[k] : k \in 1..Len(scan.eq[g].liquidParticle) }
emptiesOf(g) == { scan.eq[g].emptyParticle[k] : k \in 1..Len(scan.eq[g].emptyParticle) }

\* C37 (equalisation payload is well formed): after one scan every payload
\* has as many liquids as empties; its k-th liquid is a liquid particle that
\* group_of places in this group, its k-th empty is the EMPTY particle right
\* above that liquid; no particle is listed twice in a list, and no particle
\* is listed in two payloads.
PayloadWellFormed ==
    (scan.done /\ ~scan.applied) =>
      \A g \in 1..Len(scan.eq) :
        /\ Len(scan.eq[g].liquidParticle) = Len(scan.eq[g].emptyParticle)
        /\ \A k \in 1..Len(scan.eq[g].liquidParticle) :
             LET l == scan.eq[g].liquidParticle[k]
                 e == scan.eq[g].emptyParticle[k]
             IN  /\ CategoryOf(World, l) = LIQUIDS
                 /\ data[particle[l].index] = l
                 /\ scan.groupMap[particle[l].index] = g
                 /\ particle[e].id = EMPTY_PARTICLE_ID
                 /\ particle[e].x = particle[l].x
                 /\ particle[e].y = particle[l].y + 1
                 /\ data[particle[e].index] = e
        /\ Cardinality(liquidsOf(g)) = Len(scan.eq[g].liquidParticle)
        /\ Cardinality(emptiesOf(g)) = Len(scan.eq[g].emptyParticle)
        /\ \A o \in 1..Len(scan.eq) :
             o # g => liquidsOf(g) \cap liquidsOf(o) = {} /\ emptiesOf(g) \cap emptiesOf(o) = {}

\* the path of the stroke the last handleInput call made
strokePath == getPathBetween(brush.x, brush.y, brush.x2, brush.y2)
nearPath(path, idx, radius) ==
    \E k \in 1..Len(path) :
        LET dx == (idx % width) - path[k].x
            dy == (idx \div width) - path[k].y
        IN  dx * dx + dy * dy <= radius * radius

\* C38 (brush stroke covers its path): the path of a stroke from the previous
\* mouse cell (x2, y2) to the current one (x1, y1) starts at (x1, y1), ends at
\* (x2, y2), has max(|dx|, |dy|) + 1 points and goes to an 8-adjacent cell at
\* each step; and after the stroke every in-bounds cell within the radius of
\* a path point has had the brush policy applied: erased when the stroke
\* erases, filled with the element when it paints and the cell held EMPTY.
StrokeCoversPath ==
    [][ brush'.by = "BogEngine" =>
          LET path == getPathBetween(brush'.x, brush'.y, brush'.x2, brush'.y2)
              dx   == brush'.x2 - brush'.x
              dy   == brush'.y2 - brush'.y
          IN  /\ path[1] = [x |-> brush'.x, y |-> brush'.y]
              /\ path[Len(path)] = [x |-> brush'.x2, y |-> brush'.y2]
              /\ Len(path) = Max2(Max2(dx, 0 - dx), Max2(dy, 0 - dy)) + 1
              /\ \A k \in 1..(Len(path) - 1) :
                   /\ path[k + 1] # path[k]
                   /\ path[k + 1].x - path[k].x \in {-1, 0, 1}
                   /\ path[k + 1].y - path[k].y \in {-1, 0, 1}
              /\ \A idx \in DOMAIN data :
                   nearPath(path, idx, brush'.radius) =>
                     IF brush'.id = EMPTY_PARTICLE_ID
                     THEN particle'[data'[idx]].id = EMPTY_PARTICLE_ID
                     ELSE IF particle[data[idx]].id = EMPTY_PARTICLE_ID
                     THEN particle'[data'[idx]].id = brush'.id
                     ELSE particle'[data'[idx]].id = particle[data[idx]].id ]_vars

\* the path part of C38 alone
StrokePathShape ==
    brush.by = "BogEngine" =>
      /\ strokePath[1] = [x |-> brush.x, y |-> brush.y]
      /\ strokePath[Len(strokePath)] = [x |-> brush.x2, y |-> brush.y2]
      /\ Len(strokePath) = Max2(Max2(brush.x2 - brush.x, brush.x - brush.x2),
                                 Max2(brush.y2 - brush.y, brush.y - brush.y2)) + 1
      /\ \A k \in 1..(Len(strokePath) - 1) :
           /\ strokePath[k + 1] # strokePath[k]
           /\ strokePath[k + 1].x - strokePath[k].x \in {-1, 0, 1}
           /\ strokePath[k + 1].y - strokePath[k].y \in {-1, 0, 1}

====
